---- MODULE Spec2Model ----
(***************************************************************************)
(* Bengaluru house-price demo backend: the chat turn handler, the local    *)
(* JSON stores and the text field extraction, as a state machine.          *)
(*                                                                         *)
(* Text is a sequence of whitespace-delimited tokens; a token is a         *)
(* sequence of one-character strings.  Python values that travel through   *)
(* the handler (None, str, int, float) are records [k, s, n].              *)
(***************************************************************************)
EXTENDS Integers, Sequences, FiniteSets, TLC

(***************************************************************************)
(* Bounds of the model.                                                    *)
(***************************************************************************)
MaxRequests == 2
MaxStoreCalls == 3

(***************************************************************************)
(* Python values.  Floats are kept in hundredths.                          *)
(***************************************************************************)
FloatScale == 100

NoneV == [k |-> "none", s |-> <<>>, n |-> 0]
StrV(toks) == [k |-> "str", s |-> toks, n |-> 0]
IntV(i) == [k |-> "int", s |-> <<>>, n |-> i]
FloatV(h) == [k |-> "float", s |-> <<>>, n |-> h]
EmptyStr == StrV(<<>>)

\* Python truthiness of a value: `if val:`
Truthy(v) ==
    CASE v.k = "none" -> FALSE
      [] v.k = "str" -> v.s # <<>>
      [] OTHER -> v.n # 0

\* `v in (None, "")`
Blank(v) == v = NoneV \/ v = EmptyStr

\* dict.get(key) on a dict modelled as a function over its present keys
Get(d, key) == IF key \in DOMAIN d THEN d[key] ELSE NoneV

\* dict.get(key, 0) on a dict of counters
Get0(d, key) == IF key \in DOMAIN d THEN d[key] ELSE 0

\* dict.update / item assignment
Put(d, key, v) == [x \in DOMAIN d \cup {key} |-> IF x = key THEN v ELSE d[x]]
Update(d, e) == [x \in DOMAIN d \cup DOMAIN e |-> IF x \in DOMAIN e THEN e[x] ELSE d[x]]

EmptyDict == [x \in {} |-> NoneV]

Fields == <<"location", "total_sqft", "bath", "bhk">>
FieldSet == {Fields[i] : i \in 1..Len(Fields)}

(***************************************************************************)
(* Characters and tokens.                                                  *)
(***************************************************************************)
DigitChars == <<"0", "1", "2", "3", "4", "5", "6", "7", "8", "9">>
DigitSet == {DigitChars[i] : i \in 1..10}
NumChars == DigitSet \cup {",", "."}
SepChars == {",", ";"}
Space == <<" ">>

DigitVal(c) == (CHOOSE i \in 1..10 : DigitChars[i] = c) - 1

\* str.lower() on one character (the upper-case letters of the vocabulary)
LowerChar(c) ==
    CASE c = "H" -> "h"
      [] c = "K" -> "k"
      [] c = "M" -> "m"
      [] c = "I" -> "i"
      [] c = "B" -> "b"
      [] c = "T" -> "t"
      [] OTHER -> c

LowerTok(tok) == [i \in 1..Len(tok) |-> LowerChar(tok[i])]
LowerText(text) == [i \in 1..Len(text) |-> LowerTok(text[i])]

\* The words of the vocabulary.
W_in == <<"i", "n">>
W_In == <<"I", "n">>
W_o == <<"o">>
W_tai == <<"t", "a", "i">>
W_location == <<"l", "o", "c", "a", "t", "i", "o", "n">>
W_khu == <<"k", "h", "u">>
W_vuc == <<"v", "u", "c">>
W_colon == <<":">>
W_eq == <<"=">>
W_comma == <<",">>
W_total == <<"t", "o", "t", "a", "l">>
W_total_sqft == <<"t", "o", "t", "a", "l", "_", "s", "q", "f", "t">>
W_sqft == <<"s", "q", "f", "t">>
W_ft2 == <<"f", "t", "2">>
W_bath == <<"b", "a", "t", "h">>
W_baths == <<"b", "a", "t", "h", "s">>
W_bathroom == <<"b", "a", "t", "h", "r", "o", "o", "m">>
W_wc == <<"w", "c">>
W_bhk == <<"b", "h", "k">>
W_Hebbal == <<"H", "e", "b", "b", "a", "l">>
W_hebbal == <<"h", "e", "b", "b", "a", "l">>
W_Kempapura == <<"K", "e", "m", "p", "a", "p", "u", "r", "a">>
W_Mars == <<"M", "a", "r", "s">>
W_ok == <<"o", "k">>
N_1200 == <<"1", "2", "0", "0">>
N_1c200 == <<"1", ",", "2", "0", "0">>
N_2 == <<"2">>
N_3 == <<"3">>
N_2d5 == <<"2", ".", "5">>
N_3dot == <<"3", ".">>

(***************************************************************************)
(* str.strip() and " ".join(s.split()) on token text: whitespace tokens    *)
(* are dropped at the ends (strip) or everywhere (split/join).             *)
(***************************************************************************)
\* str.strip()
RECURSIVE LStrip(_)
LStrip(text) ==
    IF text = <<>> THEN <<>>
    ELSE IF Head(text) = Space THEN LStrip(Tail(text))
    ELSE text

RECURSIVE RStrip(_)
RStrip(text) ==
    IF text = <<>> THEN <<>>
    ELSE IF text[Len(text)] = Space THEN RStrip(SubSeq(text, 1, Len(text) - 1))
    ELSE text

StripNothing(text) == text

Strip(text) == RStrip(LStrip(text))

Words(text) == SelectSeq(text, LAMBDA tok : tok # Space)

(***************************************************************************)
(* Number text: _clean_number, float(), int().                             *)
(***************************************************************************)
IsNumTok(tok) == tok # <<>> /\ \A i \in 1..Len(tok) : tok[i] \in NumChars

RECURSIVE RStripDots(_)
RStripDots(cs) ==
    IF cs = <<>> THEN <<>>
    ELSE IF cs[Len(cs)] = "." THEN RStripDots(SubSeq(cs, 1, Len(cs) - 1))
    ELSE cs

\* re.sub(r"[^\d\.]", "", val.replace(",", "")).rstrip(".")
_clean_number(val) == RStripDots(SelectSeq(val, LAMBDA c : c \in DigitSet \cup {"."}))

\* a Python str holding the characters cs
StrOfChars(cs) == IF cs = <<>> THEN EmptyStr ELSE StrV(<<cs>>)

RECURSIVE DigitsVal(_)
DigitsVal(cs) ==
    IF cs = <<>> THEN 0
    ELSE 10 * DigitsVal(SubSeq(cs, 1, Len(cs) - 1)) + DigitVal(cs[Len(cs)])

AllDigits(cs) == \A i \in 1..Len(cs) : cs[i] \in DigitSet
DotAt(cs) == IF \E i \in 1..Len(cs) : cs[i] = "." THEN CHOOSE i \in 1..Len(cs) : cs[i] = "." /\ \A j \in 1..(i - 1) : cs[j] # "." ELSE 0

\* can float(str) parse the characters: digits with at most one dot, one digit at least
FloatParses(cs) ==
    LET d == DotAt(cs) IN
    IF d = 0 THEN cs # <<>> /\ AllDigits(cs)
    ELSE /\ AllDigits(SubSeq(cs, 1, d - 1))
         /\ AllDigits(SubSeq(cs, d + 1, Len(cs)))
         /\ Len(cs) > 1

\* the parsed float in hundredths (the first two fraction digits are kept)
FloatOfChars(cs) ==
    LET d == DotAt(cs) IN
    IF d = 0 THEN FloatScale * DigitsVal(cs)
    ELSE LET frac == SubSeq(cs, d + 1, Len(cs)) IN
         FloatScale * DigitsVal(SubSeq(cs, 1, d - 1))
           + (IF Len(frac) = 1 THEN 10 * DigitsVal(frac) ELSE DigitsVal(SubSeq(frac, 1, 2)))

IntParses(cs) == cs # <<>> /\ AllDigits(cs)

\* the characters of a str value that holds one token (else no characters)
CharsOf(v) == IF v.k = "str" /\ Len(v.s) = 1 THEN v.s[1] ELSE <<>>

\* float(v) succeeds / its result
FloatOk(v) ==
    CASE v.k = "float" -> TRUE
      [] v.k = "int" -> TRUE
      [] v.k = "str" -> Len(v.s) = 1 /\ FloatParses(v.s[1])
      [] OTHER -> FALSE

ToFloat(v) ==
    CASE v.k = "float" -> v
      [] v.k = "int" -> FloatV(FloatScale * v.n)
      [] OTHER -> FloatV(FloatOfChars(CharsOf(v)))

\* int(v) succeeds / its result
IntOk(v) ==
    CASE v.k = "int" -> TRUE
      [] v.k = "float" -> TRUE
      [] v.k = "str" -> Len(v.s) = 1 /\ IntParses(v.s[1])
      [] OTHER -> FALSE

ToInt(v) ==
    CASE v.k = "int" -> v
      [] v.k = "float" -> IntV(v.n \div FloatScale)
      [] OTHER -> IntV(DigitsVal(CharsOf(v)))

(***************************************************************************)
(* Location directory (location_service over locations.json).              *)
(***************************************************************************)
\* the saved location names, most frequent first
get_location_names == << <<W_Hebbal>>, <<W_Hebbal, W_Kempapura>> >>

\* {name.lower(): name for name in names}.get(key): a later name wins a shared key
get_lookup(key) ==
    LET names == get_location_names
        hits == {i \in 1..Len(names) : LowerText(names[i]) = key}
    IN  IF hits = {} THEN NoneV
        ELSE StrV(names[CHOOSE i \in hits : \A j \in hits : j <= i])

\* len() of a name written with single spaces
RECURSIVE NameLen(_)
NameLen(name) ==
    IF name = <<>> THEN 0
    ELSE Len(Head(name)) + (IF Len(name) > 1 THEN 1 ELSE 0) + NameLen(Tail(name))

\* `needle in haystack` on token text: a contiguous run of tokens
Contains(haystack, needle) ==
    \E i \in 0..(Len(haystack) - Len(needle)) :
        SubSeq(haystack, i + 1, i + Len(needle)) = needle

\* the longest known name found in the text, canonicalised; the first of the longest
LongestKnownName(text) ==
    LET names == get_location_names
        lowered == Words(LowerText(text))
        matches == {i \in 1..Len(names) : names[i] # <<>> /\ Contains(lowered, LowerText(names[i]))}
    IN  IF matches = {} THEN NoneV
        ELSE LET best == CHOOSE i \in matches :
                            \A j \in matches :
                                \/ NameLen(names[j]) < NameLen(names[i])
                                \/ NameLen(names[j]) = NameLen(names[i]) /\ i <= j
                 hit == get_lookup(LowerText(names[best]))
             IN  IF hit = NoneV THEN StrV(names[best]) ELSE hit

detect_in_text(text) == IF text = <<>> THEN NoneV ELSE LongestKnownName(text)

(***************************************************************************)
(* _extract_fields: the patterns, on tokens.                               *)
(***************************************************************************)
\* least index satisfying P, or 0
FirstIdx(n, P(_)) ==
    IF \E i \in 1..n : P(i) THEN CHOOSE i \in 1..n : P(i) /\ \A j \in 1..(i - 1) : ~P(j) ELSE 0

HasSep(tok) == \E i \in 1..Len(tok) : tok[i] \in SepChars

\* the characters of a token before its first separator character
BeforeSep(tok) ==
    LET k == FirstIdx(Len(tok), LAMBDA i : tok[i] \in SepChars)
    IN  IF k = 0 THEN tok ELSE SubSeq(tok, 1, k - 1)

\* ([^\n,;]+) starting at token from: the tokens up to the first separator
CaptureFrom(text, from) ==
    LET rest == SubSeq(text, from, Len(text))
        k == FirstIdx(Len(rest), LAMBDA i : HasSep(rest[i]))
    IN  IF k = 0 THEN rest
        ELSE IF BeforeSep(rest[k]) = <<>> THEN SubSeq(rest, 1, k - 1)
        ELSE Append(SubSeq(rest, 1, k - 1), BeforeSep(rest[k]))

\* a capture can start at token i: there is a token and it does not open with a separator
CanCapture(text, i) == i <= Len(text) /\ text[i] # <<>> /\ text[i][1] \notin SepChars

IsAssign(tok) == tok = W_colon \/ tok = W_eq

\* \blocation\s*[:=]\s*([^\n,;]+)
LocPattern1(text) ==
    LET i == FirstIdx(Len(text), LAMBDA j :
                 /\ LowerTok(text[j]) = W_location
                 /\ j + 1 <= Len(text) /\ IsAssign(text[j + 1])
                 /\ CanCapture(text, j + 2))
    IN  IF i = 0 THEN <<>> ELSE CaptureFrom(text, i + 2)

\* \bkhu\s*v[uu]c\s*[:=]?\s*([^\n,;]+)
LocPattern2(text) ==
    LET i == FirstIdx(Len(text), LAMBDA j :
                 /\ LowerTok(text[j]) = W_khu
                 /\ j + 1 <= Len(text) /\ LowerTok(text[j + 1]) = W_vuc
                 /\ \/ CanCapture(text, j + 2)
                    \/ j + 2 <= Len(text) /\ IsAssign(text[j + 2]) /\ CanCapture(text, j + 3))
    IN  IF i = 0 THEN <<>>
        ELSE IF IsAssign(text[i + 2]) /\ CanCapture(text, i + 3) THEN CaptureFrom(text, i + 3)
        ELSE CaptureFrom(text, i + 2)

\* \b(?:o|tai|in)\s+([^\n,;]+)
LocPattern3(text) ==
    LET i == FirstIdx(Len(text), LAMBDA j :
                 /\ LowerTok(text[j]) \in {W_o, W_tai, W_in}
                 /\ CanCapture(text, j + 1))
    IN  IF i = 0 THEN <<>> ELSE CaptureFrom(text, i + 1)

\* the candidate of the first location pattern that matches (then `break`)
LocationCandidate(text) ==
    IF LocPattern1(text) # <<>> THEN LocPattern1(text)
    ELSE IF LocPattern2(text) # <<>> THEN LocPattern2(text)
    ELSE LocPattern3(text)

\* \s*[:=]?\s*([\d,\.]+) after the keyword that ends at token j
NumberAfter(text, j) ==
    IF j + 1 <= Len(text) /\ IsNumTok(text[j + 1]) THEN text[j + 1]
    ELSE IF j + 2 <= Len(text) /\ IsAssign(text[j + 1]) /\ IsNumTok(text[j + 2]) THEN text[j + 2]
    ELSE <<>>

\* keyword\s*[:=]?\s*([\d,\.]+): the number after the first keyword that has one
KeywordThenNumber(text, kws) ==
    LET i == FirstIdx(Len(text), LAMBDA j :
                 LowerTok(text[j]) \in kws /\ NumberAfter(text, j) # <<>>)
    IN  IF i = 0 THEN <<>> ELSE NumberAfter(text, i)

\* ([\d,\.]+)\s*keyword: the first number token followed by a keyword
NumberThenKeyword(text, kws) ==
    LET i == FirstIdx(Len(text), LAMBDA j :
                 IsNumTok(text[j]) /\ j + 1 <= Len(text) /\ LowerTok(text[j + 1]) \in kws)
    IN  IF i = 0 THEN <<>> ELSE text[i]

\* \btotal[_\s]*sqft : "total_sqft" is one token, "total sqft" two; the index of its last token
TotalSqftEnd(text, j) ==
    IF LowerTok(text[j]) = W_total_sqft THEN j
    ELSE IF LowerTok(text[j]) = W_total /\ j + 1 <= Len(text) /\ LowerTok(text[j + 1]) = W_sqft
         THEN j + 1
    ELSE 0

\* \btotal[_\s]*sqft\s*[:=]?\s*([\d,\.]+)
TotalSqftThenNumber(text) ==
    LET i == FirstIdx(Len(text), LAMBDA j :
                 TotalSqftEnd(text, j) # 0 /\ NumberAfter(text, TotalSqftEnd(text, j)) # <<>>)
    IN  IF i = 0 THEN <<>> ELSE NumberAfter(text, TotalSqftEnd(text, i))

\* the first pattern of a pair that matches gives the captured number token
FirstOf(a, b) == IF a # <<>> THEN a ELSE b

LocationOf_marker_only(candidate, text, useAllowed) ==
    IF candidate # <<>> /\ ~useAllowed THEN StrV(candidate)
    ELSE IF candidate # <<>> THEN get_lookup(Words(LowerText(candidate)))
    ELSE IF useAllowed /\ Len(get_location_names) > 0 THEN LongestKnownName(text)
    ELSE NoneV

\* lines 44-60: the location a text gives, or None: the pattern candidate (looked up in
\* the directory when one is in use), else the longest known name the text contains
LocationOf(candidate, text, useAllowed) ==
    IF candidate # <<>> /\ ~useAllowed THEN StrV(candidate)
    ELSE IF candidate # <<>> /\ Truthy(get_lookup(Words(LowerText(candidate))))
         THEN get_lookup(Words(LowerText(candidate)))
    ELSE IF useAllowed /\ Len(get_location_names) > 0 THEN LongestKnownName(text)
    ELSE NoneV

\* lines 63-90: the number token captured for each numeric field (empty if none)
SqftToken(text) == FirstOf(TotalSqftThenNumber(text), NumberThenKeyword(text, {W_sqft, W_ft2}))
BathToken(text) == FirstOf(KeywordThenNumber(text, {W_bath, W_bathroom, W_baths}),
                           KeywordThenNumber(text, {W_wc}))
BhkToken(text) == FirstOf(KeywordThenNumber(text, {W_bhk}), NumberThenKeyword(text, {W_bhk}))

\* the dict `found`: a key for each field that matched
Found(location, sqft, bath, bhk) ==
    [f \in {x \in FieldSet : CASE x = "location" -> location # NoneV
                                [] x = "total_sqft" -> sqft # <<>>
                                [] x = "bath" -> bath # <<>>
                                [] OTHER -> bhk # <<>>} |->
        CASE f = "location" -> location
          [] f = "total_sqft" -> StrOfChars(_clean_number(sqft))
          [] f = "bath" -> StrOfChars(_clean_number(bath))
          [] OTHER -> StrOfChars(_clean_number(bhk))]

_extract_fields(text, useAllowed) ==
    IF text = <<>> THEN EmptyDict
    ELSE Found(LocationOf(LocationCandidate(text), text, useAllowed),
               SqftToken(text), BathToken(text), BhkToken(text))

RECURSIVE _merge_fields_from_history_first_wins(_)
_merge_fields_from_history_first_wins(history) ==
    IF history = <<>> THEN EmptyDict
    ELSE Update(_extract_fields(history[Len(history)].content, TRUE),
                _merge_fields_from_history_first_wins(SubSeq(history, 1, Len(history) - 1)))

\* merged.update(_extract_fields(content, ...)) over the messages in order
RECURSIVE _merge_fields_from_history(_)
_merge_fields_from_history(history) ==
    IF history = <<>> THEN EmptyDict
    ELSE Update(_merge_fields_from_history(SubSeq(history, 1, Len(history) - 1)),
                _extract_fields(history[Len(history)].content, TRUE))

(***************************************************************************)
(* State.                                                                  *)
(***************************************************************************)
VARIABLES
    conversations,  \* conversations.json: session id -> list of {role, content}
    houses,         \* houses.json: list of records
    req,            \* per worker thread: the request it is handling and its locals
    uuids,          \* how many uuid4() values have been drawn
    served,         \* how many requests have been accepted
    workers,        \* the worker threads of the server
    turns,          \* per session id: chat turns answered with HTTP 200
    supplied,       \* per session id: the fields some turn's message gave a usable value for
    houseLock,      \* LocalHouseStore._lock: "free" or the thread that holds it
    sp,             \* per client thread of the house store: the call it is making
    storeCalls,     \* how many direct store calls have been made
    clients,        \* the payloads the clients of the server send
    api,            \* POST /api/house/predict: the last request and its answer
    trainingDone,   \* api._TRAINING_DONE
    environ,        \* os.environ: the variables the backend reads and sets
    modelDir,       \* models/: artifact file name -> the training run that wrote it
    metricsFile,    \* models/metrics.json: the history list
    locationsFile,  \* storage/locations.json: the "locations" list
    boots,          \* how many create_app calls have been made
    boot,           \* the last create_app call: what it did and what it found
    lib,            \* the last direct call of a library function: arguments and result
    ui,             \* the front-end script: its session state and what it has sent
    sup             \* the process supervisor: where main() is, and the front-end child

\* the process around the request handlers: startup, artifacts, library calls
sideVars == <<api, trainingDone, environ, modelDir, metricsFile, locationsFile, boots, boot, lib,
              ui, sup>>

vars == <<conversations, houses, req, uuids, served, workers, turns, supplied,
          houseLock, sp, storeCalls, clients, sideVars>>

storeVars == <<houseLock, sp, storeCalls, clients, sideVars>>

Threads == {"w1", "w2"}

\* uuid4().hex: a fresh one-token string per draw
Uuid(n) == << <<"#", DigitChars[(n \div 10) + 1], DigitChars[(n % 10) + 1]>> >>

T_chat == <<"c", "h", "a", "t">>
T_api == <<"a", "p", "i">>
W_s1 == <<"s", "1">>

Msg(role, content) == [role |-> role, content |-> content]

(***************************************************************************)
(* LocalConversationStore                                                  *)
(***************************************************************************)
\* list(data.get(session_id, []))
get_history(data, session_id) ==
    IF session_id \in DOMAIN data THEN data[session_id] ELSE <<>>

\* data[session_id] = history
save_history(data, session_id, history) ==
    [x \in DOMAIN data \cup {session_id} |-> IF x = session_id THEN history ELSE data[x]]

(***************************************************************************)
(* LocalHouseStore                                                         *)
(***************************************************************************)
_maybe_float(val) == IF FloatOk(val) THEN ToFloat(val) ELSE val
_maybe_int(val) == IF IntOk(val) THEN ToInt(val) ELSE val

\* index of the first record tied to the session id, or 0
SessionIndex(data, session_id) ==
    FirstIdx(Len(data), LAMBDA i : Get(data[i], "session_id") = StrV(session_id))

\* dict(item) of the first record with that session id, or None (the empty dict here)
get_record_by_session(data, session_id) ==
    LET i == SessionIndex(data, session_id)
    IN  IF i = 0 THEN EmptyDict ELSE data[i]

\* the keyword arguments of upsert_session_record / add_record
Args(location, total_sqft, bath, bhk, price, source) ==
    [location |-> location, total_sqft |-> total_sqft, bath |-> bath, bhk |-> bhk,
     predicted_price_lakh |-> price, source |-> source]

\* the record built when the session has none yet
NewSessionRecord(session_id, a, id) ==
    [id |-> StrV(id),
     session_id |-> StrV(session_id),
     location |-> a.location,
     total_sqft |-> IF a.total_sqft # NoneV THEN _maybe_float(a.total_sqft) ELSE NoneV,
     bath |-> IF a.bath # NoneV THEN _maybe_int(a.bath) ELSE NoneV,
     bhk |-> IF a.bhk # NoneV THEN _maybe_int(a.bhk) ELSE NoneV,
     predicted_price_lakh |-> IF a.predicted_price_lakh = NoneV THEN NoneV
                              ELSE ToFloat(a.predicted_price_lakh),
     source |-> a.source]

\* the in-place update of the session's record: only the supplied arguments
UpdateExistingNoPrice(existing, a) ==
    LET e1 == IF a.location # NoneV THEN Put(existing, "location", a.location) ELSE existing
        e2 == IF a.total_sqft # NoneV THEN Put(e1, "total_sqft", _maybe_float(a.total_sqft)) ELSE e1
        e3 == IF a.bath # NoneV THEN Put(e2, "bath", _maybe_int(a.bath)) ELSE e2
        e4 == IF a.bhk # NoneV THEN Put(e3, "bhk", _maybe_int(a.bhk)) ELSE e3
    IN  IF Truthy(a.source) THEN Put(e4, "source", a.source) ELSE e4

UpdateExisting_overwrites_all(existing, a) ==
    [x \in DOMAIN existing |->
        CASE x = "location" -> a.location
          [] x = "total_sqft" -> _maybe_float(a.total_sqft)
          [] x = "bath" -> _maybe_int(a.bath)
          [] x = "bhk" -> _maybe_int(a.bhk)
          [] x = "predicted_price_lakh" -> _maybe_float(a.predicted_price_lakh)
          [] x = "source" -> a.source
          [] OTHER -> existing[x]]

UpdateExisting(existing, a) ==
    LET e1 == IF a.location # NoneV THEN Put(existing, "location", a.location) ELSE existing
        e2 == IF a.total_sqft # NoneV THEN Put(e1, "total_sqft", _maybe_float(a.total_sqft)) ELSE e1
        e3 == IF a.bath # NoneV THEN Put(e2, "bath", _maybe_int(a.bath)) ELSE e2
        e4 == IF a.bhk # NoneV THEN Put(e3, "bhk", _maybe_int(a.bhk)) ELSE e3
        e5 == IF a.predicted_price_lakh # NoneV
              THEN Put(e4, "predicted_price_lakh", ToFloat(a.predicted_price_lakh)) ELSE e4
    IN  IF Truthy(a.source) THEN Put(e5, "source", a.source) ELSE e5

\* upsert_session_record on the file content: the new content, the returned record,
\* and whether a uuid was drawn
upsert_session_record(data, session_id, a, id) ==
    LET i == SessionIndex(data, session_id)
    IN  IF i = 0
        THEN [data |-> Append(data, NewSessionRecord(session_id, a, id)),
              record |-> NewSessionRecord(session_id, a, id),
              drew |-> TRUE]
        ELSE [data |-> [data EXCEPT ![i] = UpdateExisting(data[i], a)],
              record |-> UpdateExisting(data[i], a),
              drew |-> FALSE]

\* the record add_record builds and appends
add_record(data, a, id) ==
    LET record == [id |-> StrV(id),
                   location |-> a.location,
                   total_sqft |-> ToFloat(a.total_sqft),
                   bath |-> ToInt(a.bath),
                   bhk |-> ToInt(a.bhk),
                   predicted_price_lakh |-> IF a.predicted_price_lakh = NoneV THEN NoneV
                                            ELSE ToFloat(a.predicted_price_lakh),
                   source |-> a.source]
    IN  [data |-> Append(data, record), record |-> record]

(***************************************************************************)
(* External services: what a call can return.                              *)
(***************************************************************************)
\* house_price_service.predict: a price in hundredths of a lakh, or an exception
Prices == {8550, 12000}
InferenceOutcomes == {[raised |-> TRUE, price |-> 0]} \cup {[raised |-> FALSE, price |-> p] : p \in Prices}

\* llm_service.chat: the reply text (possibly empty), or an exception
R_ok == <<W_ok>>
R_bath == <<W_bath, N_2d5>>
Replies == {<<>>, R_ok, R_bath}
LLMOutcomes == {[raised |-> TRUE, text |-> <<>>]} \cup {[raised |-> FALSE, text |-> x] : x \in Replies}

(***************************************************************************)
(* Request payloads.                                                       *)
(***************************************************************************)
M_blank == <<Space>>
M_loc_sqft == <<Space, W_in, W_Hebbal, W_comma, N_1200, W_sqft>>
M_bath_bhk == <<W_bath, N_2, W_comma, N_3, W_bhk>>
M_full == <<W_In, W_hebbal, W_comma, W_total_sqft, W_colon, N_1c200, W_wc, N_2, W_bhk, W_eq, N_3dot>>
M_mars == <<W_bath, N_2, W_comma, N_3, W_bhk, W_in, W_Mars>>
M_no_bath == <<W_bath, W_comma, N_3, W_bhk>>

MessageInputs == {NoneV, StrV(M_blank), StrV(M_loc_sqft), StrV(M_bath_bhk), StrV(M_full),
                  StrV(M_mars), StrV(M_no_bath)}
SessionInputs == {NoneV, StrV(<<W_s1, Space>>)}
Payloads == {[message |-> m, session_id |-> x] : m \in MessageInputs, x \in SessionInputs}

\* (payload.get(key) or "") as text
TextOr(payload, key) == IF Truthy(Get(payload, key)) THEN Get(payload, key).s ELSE <<>>

(***************************************************************************)
(* POST /api/chat                                                          *)
(***************************************************************************)
UNSUPPORTED_REPLY ==
    << <<"Mo">>, <<"hinh">>, <<"hien">>, <<"khong">>, <<"ho">>, <<"tro">>, W_khu, <<"v", "ự", "c">>,
       <<"do.">>, <<"Vui">>, <<"long">>, <<"chon">>, <<"mot">>, W_location, <<"hop">>,
       <<"le">>, <<"trong">>, <<"danh">>, <<"sach.">> >>

NoResponse ==
    [error |-> FALSE, session_id |-> <<>>, reply |-> <<>>, history |-> <<>>,
     detected_fields |-> EmptyDict, prediction |-> NoneV]

IdleReq ==
    [pc |-> "idle", kind |-> "none", payload |-> EmptyDict,
     session_id |-> <<>>, minted |-> FALSE, user_message |-> <<>>,
     history |-> <<>>, prior |-> <<>>,
     raw_fields |-> EmptyDict, canonical_fields |-> EmptyDict,
     detected_fields |-> EmptyDict, reconciled |-> EmptyDict,
     missing_fields |-> <<>>, short_circuit |-> FALSE,
     prediction_val |-> NoneV, extra_messages |-> <<>>,
     inference |-> "none", price |-> NoneV,
     llm |-> "none", llm_text |-> <<>>, llm_arg |-> <<>>, supplied_before |-> {},
     status |-> 0, response |-> NoResponse,
     conv0 |-> EmptyDict, houses0 |-> <<>>]

\* a hidden message: its role, its kind and what it mentions
Note(role, kind, args) == [role |-> role, note |-> kind, args |-> args]
NameV(f) == StrV(<< <<f>> >>)

\* [f for f in (the four) if detected_fields.get(f) in (None, "")]
MissingFields_none_only(d) == SelectSeq(Fields, LAMBDA f : Get(d, f) = NoneV)

MissingFields(d) == SelectSeq(Fields, LAMBDA f : Get(d, f) \in {NoneV, EmptyStr})

\* float(total_sqft), int(bath), int(bhk) all succeed
ready_for_prediction(d) ==
    FloatOk(Get(d, "total_sqft")) /\ IntOk(Get(d, "bath")) /\ IntOk(Get(d, "bhk"))

\* a location token was written but none is known to the directory
IsUnsupportedLocation_inverted(raw_fields, canonical_fields) ==
    Truthy(Get(raw_fields, "location")) /\ Truthy(Get(canonical_fields, "location"))

IsUnsupportedLocation(raw_fields, canonical_fields) ==
    Truthy(Get(raw_fields, "location")) /\ ~Truthy(Get(canonical_fields, "location"))

\* the current turn's canonical values take precedence over the merged ones
RECURSIVE PreferCurrent(_, _, _)
PreferCurrent(detected, canonical, fs) ==
    IF fs = <<>> THEN detected
    ELSE PreferCurrent(
             IF Head(fs) \in DOMAIN canonical /\ Truthy(canonical[Head(fs)])
             THEN Put(detected, Head(fs), canonical[Head(fs)]) ELSE detected,
             canonical, Tail(fs))

\* fill what is still unknown from the stored session record
RECURSIVE FillFrom(_, _, _)
FillFrom(detected, existing, fs) ==
    IF fs = <<>> THEN detected
    ELSE FillFrom(
             IF Blank(Get(detected, Head(fs))) /\ ~Blank(Get(existing, Head(fs)))
             THEN Put(detected, Head(fs), Get(existing, Head(fs))) ELSE detected,
             existing, Tail(fs))

Reconcile_history_only(detected, existing) == detected

Reconcile(detected, existing) ==
    IF existing # EmptyDict THEN FillFrom(detected, existing, Fields) ELSE detected

\* detected_fields[field] = persisted_house.get(field) for the four fields
SyncWith(detected, persisted) ==
    [x \in DOMAIN detected \cup FieldSet |-> IF x \in FieldSet THEN Get(persisted, x) ELSE detected[x]]

\* the fields a turn's message gives a usable value for: a known location, numbers that coerce
UsableFields(canonical) ==
    {f \in FieldSet :
        /\ Truthy(Get(canonical, f))
        /\ f = "total_sqft" => FloatOk(canonical[f])
        /\ f \in {"bath", "bhk"} => IntOk(canonical[f])}

\* lines 116-127: parse the payload, resolve the session, reject an empty message,
\* load the history and append the user turn
Receive(t, payload) ==
    /\ t \in workers
    /\ payload \in clients
    /\ req[t].pc \in {"idle", "done"}
    /\ served < MaxRequests
    /\ LET user_message == Strip(TextOr(payload, "message"))
           given == Strip(TextOr(payload, "session_id"))
           minted == given = <<>>
           session_id == IF minted THEN Uuid(uuids) ELSE given
           base == [IdleReq EXCEPT !.kind = "chat", !.payload = payload,
                                   !.session_id = session_id, !.minted = minted,
                                   !.user_message = user_message,
                                   !.conv0 = conversations, !.houses0 = houses]
           prior == get_history(conversations, session_id)
       IN  /\ uuids' = IF minted THEN uuids + 1 ELSE uuids
           /\ req' = [req EXCEPT ![t] =
                         IF user_message = <<>>
                         THEN [base EXCEPT !.pc = "done", !.status = 400,
                                           !.response = [NoResponse EXCEPT !.error = TRUE]]
                         ELSE [base EXCEPT !.pc = "got_history", !.prior = prior,
                                           !.history = Append(prior, Msg("user", user_message))]]
    /\ served' = served + 1
    /\ UNCHANGED <<conversations, houses, workers, turns, supplied, storeVars>>

\* lines 131-132: the location detect_in_text infers when extraction gave none
InferredLocation(canonical0, text) ==
    IF Truthy(Get(canonical0, "location")) THEN NoneV ELSE detect_in_text(text)

\* line 134: canonical_fields["location"] = inferred_loc
SetInferred(fields, inferred_loc) ==
    IF Truthy(inferred_loc) THEN Put(fields, "location", inferred_loc) ELSE fields

\* line 135: raw_fields.setdefault("location", inferred_loc)
SetDefaultInferred(fields, inferred_loc) ==
    IF Truthy(inferred_loc) /\ "location" \notin DOMAIN fields
    THEN Put(fields, "location", inferred_loc) ELSE fields

\* lines 130-134: canonical_fields of the turn
CanonicalOf(canonical0, text) == SetInferred(canonical0, InferredLocation(canonical0, text))
CanonicalFields(text) == CanonicalOf(_extract_fields(text, TRUE), text)

\* lines 129-135: raw_fields of the turn
RawFields(text) ==
    SetDefaultInferred(_extract_fields(text, FALSE),
                       InferredLocation(_extract_fields(text, TRUE), text))

\* lines 137-150: detected_fields before it is persisted
DetectedFields(history, canonical, existing_house) ==
    Reconcile(PreferCurrent(_merge_fields_from_history(history), canonical, Fields),
              existing_house)

\* supplied.get(session_id, set())
SuppliedFor(session_id) == IF session_id \in DOMAIN supplied THEN supplied[session_id] ELSE {}

\* lines 129-150: extract from the message, merge the history, read the session record
ReadHouse(t) ==
    /\ req[t].pc = "got_history"
    /\ LET r == req[t]
           canonical == CanonicalFields(r.user_message)
           detected == DetectedFields(r.history, canonical,
                                      get_record_by_session(houses, r.session_id))
       IN  /\ req' = [req EXCEPT ![t] =
                         [r EXCEPT !.pc = "reconciled",
                                   !.raw_fields = RawFields(r.user_message),
                                   !.canonical_fields = canonical,
                                   !.detected_fields = detected, !.reconciled = detected,
                                   !.supplied_before = SuppliedFor(r.session_id)]]
           /\ supplied' = [x \in DOMAIN supplied \cup {r.session_id} |->
                              IF x = r.session_id
                              THEN SuppliedFor(x) \cup UsableFields(canonical)
                              ELSE supplied[x]]
    /\ UNCHANGED <<conversations, houses, uuids, served, workers, turns, storeVars>>

\* lines 153-163: persist every known field, then mirror the stored record
UpsertFields(t) ==
    /\ req[t].pc = "reconciled"
    /\ LET r == req[t]
           d == r.detected_fields
           res == upsert_session_record(houses, r.session_id,
                      Args(Get(d, "location"), Get(d, "total_sqft"), Get(d, "bath"),
                           Get(d, "bhk"), NoneV, StrV(<<T_chat>>)),
                      Uuid(uuids))
       IN  /\ houses' = res.data
           /\ uuids' = IF res.drew THEN uuids + 1 ELSE uuids
           /\ req' = [req EXCEPT ![t] =
                         [r EXCEPT !.pc = "persisted",
                                   !.detected_fields = SyncWith(d, res.record),
                                   !.short_circuit =
                                       IsUnsupportedLocation(r.raw_fields, r.canonical_fields)]]
    /\ UNCHANGED <<conversations, served, workers, turns, supplied, storeVars>>

ReplyHistory_reply_only(r, reply) == Append(r.prior, Msg("assistant", reply))

\* lines 167 and 256: history.append({"role": "assistant", "content": reply}), on
\* the history read at line 126 and extended with the user turn at line 127
ReplyHistory(r, reply) == Append(r.history, Msg("assistant", reply))

\* lines 165-177: the fixed reply for a location the directory does not know
ShortCircuit(t) ==
    /\ req[t].pc = "persisted"
    /\ req[t].short_circuit
    /\ LET r == req[t]
           history == ReplyHistory(r, UNSUPPORTED_REPLY)
       IN  /\ conversations' = save_history(conversations, r.session_id, history)
           /\ turns' = [x \in DOMAIN turns \cup {r.session_id} |->
                           IF x = r.session_id THEN Get0(turns, x) + 1 ELSE turns[x]]
           /\ req' = [req EXCEPT ![t] =
                         [r EXCEPT !.pc = "done", !.status = 200, !.history = history,
                                   !.response = [error |-> FALSE, session_id |-> r.session_id,
                                                 reply |-> UNSUPPORTED_REPLY, history |-> history,
                                                 detected_fields |-> r.detected_fields,
                                                 prediction |-> NoneV]]]
    /\ UNCHANGED <<houses, uuids, served, workers, supplied, storeVars>>

\* lines 235-241: an inference failure becomes a hidden note, the turn goes on
OnInferenceError_propagates(r) ==
    [r EXCEPT !.pc = "done", !.inference = "raised", !.status = 500,
              !.response = [NoResponse EXCEPT !.error = TRUE]]

OnInferenceError(r) ==
    [r EXCEPT !.pc = "ready_llm", !.inference = "raised",
              !.extra_messages = r.extra_messages \o <<Note("assistant", "inference_error", <<>>)>>]

\* lines 179-249: decide what is missing, coerce, call the model, store its result
Predict(t) ==
    /\ req[t].pc = "persisted"
    /\ ~req[t].short_circuit
    /\ LET r == req[t]
           d == r.detected_fields
           missing_fields == MissingFields(d)
           r1 == [r EXCEPT !.missing_fields = missing_fields]
       IN  IF missing_fields # <<>>
           THEN /\ req' = [req EXCEPT ![t] =
                              [r1 EXCEPT !.pc = "ready_llm",
                                         !.extra_messages =
                                             <<Note("assistant", "missing",
                                                    [i \in 1..Len(missing_fields) |->
                                                        NameV(missing_fields[i])])>>]]
                /\ UNCHANGED <<houses, uuids>>
           ELSE IF ~ready_for_prediction(d)
           THEN /\ req' = [req EXCEPT ![t] =
                              [r1 EXCEPT !.pc = "ready_llm",
                                         !.extra_messages =
                                             <<Note("assistant", "invalid_number", <<>>)>>]]
                /\ UNCHANGED <<houses, uuids>>
           ELSE \E outcome \in InferenceOutcomes :
                    IF outcome.raised
                    THEN /\ req' = [req EXCEPT ![t] = OnInferenceError(r1)]
                         /\ UNCHANGED <<houses, uuids>>
                    ELSE LET prediction_val == FloatV(outcome.price)
                             res == upsert_session_record(houses, r.session_id,
                                        Args(d["location"], ToFloat(d["total_sqft"]),
                                             ToInt(d["bath"]), ToInt(d["bhk"]),
                                             prediction_val, StrV(<<T_chat>>)),
                                        Uuid(uuids))
                             synced == SyncWith(d, res.record)
                         IN  /\ houses' = res.data
                             /\ uuids' = IF res.drew THEN uuids + 1 ELSE uuids
                             /\ req' = [req EXCEPT ![t] =
                                           [r1 EXCEPT !.pc = "ready_llm",
                                                      !.inference = "returned",
                                                      !.price = FloatV(outcome.price),
                                                      !.prediction_val = prediction_val,
                                                      !.detected_fields = synced,
                                                      !.extra_messages =
                                                          <<Note("assistant", "result",
                                                                 <<synced["location"],
                                                                   synced["total_sqft"],
                                                                   synced["bath"],
                                                                   synced["bhk"],
                                                                   prediction_val>>),
                                                            Note("user", "instruction", <<>>)>>]]
    /\ UNCHANGED <<conversations, served, workers, turns, supplied, storeVars>>

\* lines 253-254: what conversations.json holds after the LLM call raised
ConversationsAfterLLMError_user_turn_saved(data, r) ==
    save_history(data, r.session_id, r.history)

ConversationsAfterLLMError(data, r) == data

\* lines 251-272: ask the LLM, store the reply, answer
LLMTurn(t) ==
    /\ req[t].pc = "ready_llm"
    /\ \E outcome \in LLMOutcomes :
        LET r == [req[t] EXCEPT !.llm_arg = [history |-> req[t].history,
                                             extra |-> req[t].extra_messages]]
        IN  IF outcome.raised
            THEN /\ req' = [req EXCEPT ![t] =
                               [r EXCEPT !.pc = "done", !.llm = "raised", !.status = 500,
                                         !.response = [NoResponse EXCEPT !.error = TRUE]]]
                 /\ conversations' = ConversationsAfterLLMError(conversations, r)
                 /\ UNCHANGED turns
            ELSE LET history == ReplyHistory(r, outcome.text)
                 IN  /\ conversations' = save_history(conversations, r.session_id, history)
                     /\ turns' = [x \in DOMAIN turns \cup {r.session_id} |->
                                     IF x = r.session_id THEN Get0(turns, x) + 1 ELSE turns[x]]
                     /\ req' = [req EXCEPT ![t] =
                                   [r EXCEPT !.pc = "done", !.llm = "returned", !.status = 200,
                                             !.llm_text = outcome.text,
                                             !.history = history,
                                             !.response =
                                                 [error |-> FALSE, session_id |-> r.session_id,
                                                  reply |-> outcome.text, history |-> history,
                                                  detected_fields |->
                                                      _merge_fields_from_history(history),
                                                  prediction |-> r.prediction_val]]]
    /\ UNCHANGED <<houses, uuids, served, workers, supplied, storeVars>>

(***************************************************************************)
(* GET /api/chat/<session_id>                                              *)
(***************************************************************************)
get_history_response_no_404(data, session_id) ==
    [status |-> 200,
     body |-> [error |-> FALSE, session_id |-> session_id, reply |-> <<>>,
               history |-> get_history(data, session_id),
               detected_fields |-> _merge_fields_from_history(get_history(data, session_id)),
               prediction |-> NoneV]]

get_history_response(data, session_id) ==
    LET history == get_history(data, session_id)
    IN  IF history = <<>>
        THEN [status |-> 404, body |-> [NoResponse EXCEPT !.error = TRUE]]
        ELSE [status |-> 200,
              body |-> [error |-> FALSE, session_id |-> session_id, reply |-> <<>>,
                        history |-> history,
                        detected_fields |-> _merge_fields_from_history(history),
                        prediction |-> NoneV]]

GetHistory(t, session_id) ==
    /\ t \in workers
    /\ req[t].pc \in {"idle", "done"}
    /\ served < MaxRequests
    /\ LET res == get_history_response(conversations, session_id)
       IN  req' = [req EXCEPT ![t] =
                      [IdleReq EXCEPT !.pc = "done", !.kind = "history",
                                      !.session_id = session_id,
                                      !.status = res.status, !.response = res.body,
                                      !.conv0 = conversations, !.houses0 = houses]]
    /\ served' = served + 1
    /\ UNCHANGED <<conversations, houses, uuids, workers, turns, supplied, storeVars>>

(***************************************************************************)
(* POST /api/house/predict                                                 *)
(***************************************************************************)
\* LocationService.canonicalize
canonicalize_as_typed(location) == IF location = <<>> THEN NoneV ELSE StrV(location)

canonicalize(location) ==
    IF location = <<>> THEN NoneV ELSE get_lookup(Words(LowerText(location)))

\* line 295: (payload.get("location") or "").strip() raises on a truthy value that is no str
LocationRaises(payload) ==
    Truthy(Get(payload, "location")) /\ Get(payload, "location").k # "str"

\* line 295: location
ApiLocation(payload) == Strip(TextOr(payload, "location"))

\* lines 300-309: missing
ApiMissing(payload) ==
    SelectSeq(Fields, LAMBDA f : IF f = "location" THEN ApiLocation(payload) = <<>>
                                 ELSE Get(payload, f) = NoneV)

\* lines 317-322: float(total_sqft), int(bath), int(bhk) all succeed
ApiNumbersOk(payload) ==
    FloatOk(Get(payload, "total_sqft")) /\ IntOk(Get(payload, "bath")) /\ IntOk(Get(payload, "bhk"))

\* lines 334-341: the keyword arguments of add_record
ApiArgs(payload, price) ==
    Args(canonicalize(ApiLocation(payload)), ToFloat(Get(payload, "total_sqft")),
         ToInt(Get(payload, "bath")), ToInt(Get(payload, "bhk")), price, StrV(<<T_api>>))

\* an answer that is no prediction; called: the inference service was called; data: houses.json
ApiFail(status, error, missing, called, data) ==
    [status |-> status, error |-> error, missing |-> missing, called |-> called,
     input |-> EmptyDict, predicted_price_lakh |-> NoneV, record_id |-> NoneV,
     data |-> data, drew |-> FALSE]

\* lines 334-356: add_record, then the answer
ApiOk(a, stored) ==
    [status |-> 200, error |-> "", missing |-> <<>>, called |-> TRUE,
     input |-> [location |-> a.location, total_sqft |-> a.total_sqft,
                bath |-> a.bath, bhk |-> a.bhk],
     predicted_price_lakh |-> a.predicted_price_lakh, record_id |-> stored.record.id,
     data |-> stored.data, drew |-> TRUE]

\* predict_house on a payload, an outcome of the inference call and the content of houses.json
predict_house(payload, outcome, data, id) ==
    IF LocationRaises(payload) THEN ApiFail(500, "unhandled", <<>>, FALSE, data)
    ELSE IF ApiMissing(payload) # <<>>
         THEN ApiFail(400, "missing", ApiMissing(payload), FALSE, data)
    ELSE IF ~Truthy(canonicalize(ApiLocation(payload)))
         THEN ApiFail(400, "location", <<>>, FALSE, data)
    ELSE IF ~ApiNumbersOk(payload) THEN ApiFail(400, "number", <<>>, FALSE, data)
    ELSE IF outcome.raised THEN ApiFail(500, "inference", <<>>, TRUE, data)
    ELSE ApiOk(ApiArgs(payload, FloatV(outcome.price)),
               add_record(data, ApiArgs(payload, FloatV(outcome.price)), id))

\* request bodies of POST /api/house/predict
ApiLocations == {NoneV, StrV(<<Space>>), StrV(<<Space, W_hebbal, Space>>),
                 StrV(<<W_Hebbal, Space, Space, W_Kempapura>>), StrV(<<W_Mars>>), IntV(5)}
ApiSqfts == {NoneV, StrV(<<N_1200>>), StrV(<<W_ok>>)}
ApiBaths == {NoneV, IntV(2), StrV(<<N_2d5>>)}
ApiBhks == {NoneV, FloatV(300)}
ApiPayloads ==
    {[location |-> l, total_sqft |-> s, bath |-> b, bhk |-> k] :
        l \in ApiLocations, s \in ApiSqfts, b \in ApiBaths, k \in ApiBhks}

IdleApi ==
    [payload |-> EmptyDict, outcome |-> [raised |-> FALSE, price |-> 0], houses0 |-> <<>>,
     answer |-> ApiFail(0, "", <<>>, FALSE, <<>>)]

\* one request, from the body to the answer
PredictHouse(payload) ==
    /\ served < MaxRequests
    /\ \E outcome \in InferenceOutcomes :
           /\ api' = [payload |-> payload, outcome |-> outcome, houses0 |-> houses,
                      answer |-> predict_house(payload, outcome, houses, Uuid(uuids))]
           /\ houses' = api'.answer.data
           /\ uuids' = IF api'.answer.drew THEN uuids + 1 ELSE uuids
    /\ served' = served + 1
    /\ UNCHANGED <<conversations, req, workers, turns, supplied, houseLock, sp, storeCalls,
                   clients, trainingDone, environ, modelDir, metricsFile, locationsFile,
                   boots, boot, lib, ui, sup>>

NextApi == \E payload \in ApiPayloads : PredictHouse(payload)

(***************************************************************************)
(* modeling.py: choosing between trained models and against the saved one.  *)
(* A ModelMetrics is [rmse, mape, cv_r2]; a metrics map is the list of its  *)
(* [name, metric] items in insertion order.                                 *)
(***************************************************************************)
ModelMetrics(rmse, mape, cv_r2) == [rmse |-> rmse, mape |-> mape, cv_r2 |-> cv_r2]

\* lines 158-163: score(name)
score(metric) == IF metric.cv_r2 # NoneV THEN metric.cv_r2.n ELSE 0 - metric.rmse.n

\* line 165: max(metrics.keys(), key=score): the first key of the highest score
select_best_model(metrics) ==
    metrics[CHOOSE i \in 1..Len(metrics) :
                \A j \in 1..Len(metrics) :
                    \/ score(metrics[j].metric) < score(metrics[i].metric)
                    \/ score(metrics[j].metric) = score(metrics[i].metric) /\ i <= j].name

\* metrics[name]
MetricOf(metrics, name) ==
    metrics[CHOOSE i \in 1..Len(metrics) : metrics[i].name = name].metric

\* ModelMetrics.as_dict
as_dict(metric) == [rmse |-> metric.rmse, mape |-> metric.mape, cv_r2 |-> metric.cv_r2]

\* lines 230-237: float(raw_metrics.get(key)) or None when it is null or does not parse
OldMetric(saved_metrics, key) ==
    IF Get(saved_metrics.metrics, key) # NoneV /\ FloatOk(Get(saved_metrics.metrics, key))
    THEN ToFloat(Get(saved_metrics.metrics, key)) ELSE NoneV

\* lines 223-246
should_replace_model_or_equal(new_metrics, saved_metrics) ==
    IF saved_metrics = NoneV THEN TRUE
    ELSE IF new_metrics.cv_r2 # NoneV
         THEN IF OldMetric(saved_metrics, "cv_r2") = NoneV THEN TRUE
              ELSE new_metrics.cv_r2.n >= OldMetric(saved_metrics, "cv_r2").n
    ELSE IF OldMetric(saved_metrics, "rmse") = NoneV THEN TRUE
    ELSE new_metrics.rmse.n <= OldMetric(saved_metrics, "rmse").n

should_replace_model(new_metrics, saved_metrics) ==
    IF saved_metrics = NoneV THEN TRUE
    ELSE IF new_metrics.cv_r2 # NoneV
         THEN IF OldMetric(saved_metrics, "cv_r2") = NoneV THEN TRUE
              ELSE new_metrics.cv_r2.n > OldMetric(saved_metrics, "cv_r2").n
    ELSE IF OldMetric(saved_metrics, "rmse") = NoneV THEN TRUE
    ELSE new_metrics.rmse.n < OldMetric(saved_metrics, "rmse").n

\* lines 259-264: the entry save_metrics_file appends
MetricsEntry(model_name, model_filename, metric) ==
    [model_name |-> StrV(<<model_name>>), model_filename |-> model_filename,
     metrics |-> as_dict(metric)]

\* lines 218-220: the entry has a "metrics" dict with an "rmse" key
HasRmse(entry) ==
    /\ "metrics" \in DOMAIN entry
    /\ "k" \notin DOMAIN entry.metrics
    /\ "rmse" \in DOMAIN entry.metrics

RECURSIVE load_saved_metrics_latest_valid(_)
load_saved_metrics_latest_valid(history) ==
    IF history = <<>> THEN NoneV
    ELSE IF ~HasRmse(history[Len(history)])
         THEN load_saved_metrics_latest_valid(SubSeq(history, 1, Len(history) - 1))
    ELSE history[Len(history)]

\* lines 209-221: load_saved_metrics on the history list of metrics.json
load_saved_metrics(history) ==
    IF history = <<>> THEN NoneV
    ELSE IF ~HasRmse(history[Len(history)]) THEN NoneV
    ELSE history[Len(history)]

\* metrics.json on disk: whether it is there, whether it parses, and its shape:
\* {"history": [...]}, a single record with "metrics", a bare list, or anything else
MetricsJson(exists, parses, shape, entries) ==
    [exists |-> exists, parses |-> parses, shape |-> shape, entries |-> entries]

\* lines 191-207: the entries that are dicts, or [] for a file that gives none
_read_metrics_history(file) ==
    IF ~file.exists THEN <<>>
    ELSE IF ~file.parses THEN <<>>
    ELSE IF file.shape \in {"history", "list"}
         THEN SelectSeq(file.entries, LAMBDA entry : "k" \notin DOMAIN entry)
    ELSE IF file.shape = "single" /\ "metrics" \in DOMAIN file.entries[1] THEN file.entries
    ELSE <<>>

\* the names train_models gives its models, in order
W_linear_regression == <<"l", "i", "n", "e", "a", "r", "_", "r", "e", "g", "r", "e", "s", "s", "i", "o", "n">>
W_random_forest == <<"r", "a", "n", "d", "o", "m", "_", "f", "o", "r", "e", "s", "t">>
W_extra == <<"e", "x", "t", "r", "a">>
ModelNames == <<W_linear_regression, W_random_forest, W_extra>>

\* metric values of the direct calls: hundredths; a CV R2 can be negative
MaxCandidates == 2
MetricInputs ==
    {ModelMetrics(FloatV(r), FloatV(1200), c) :
        r \in {10, 250}, c \in {NoneV, FloatV(0 - 50), FloatV(80)}}

\* the metrics maps of at most MaxCandidates candidates
MetricsMaps ==
    UNION {[1..n -> MetricInputs] : n \in 1..MaxCandidates}

Named(ms) == [i \in 1..Len(ms) |-> [name |-> ModelNames[i], metric |-> ms[i]]]

\* saved records: what metrics.json can hold as its latest entry
SavedInputs ==
    {NoneV} \cup
    {[model_name |-> StrV(<<W_extra>>), model_filename |-> StrV(<<W_extra>>),
      metrics |-> [rmse |-> r, mape |-> FloatV(1200), cv_r2 |-> c]] :
        r \in {NoneV, FloatV(250), StrV(<<N_2d5>>), StrV(<<W_ok>>)},
        c \in {NoneV, FloatV(80), StrV(<<W_ok>>)}}

(***************************************************************************)
(* LocationService: the saved list of {"name", "count"} items.             *)
(***************************************************************************)
LocationItem(name, count) == [name |-> name, count |-> count]

\* sorted(items, key=count, reverse=True): a stable sort, highest count first
RECURSIVE InsertByCount(_, _)
InsertByCount(item, sorted) ==
    IF sorted = <<>> THEN <<item>>
    ELSE IF Head(sorted).count >= item.count
         THEN <<Head(sorted)>> \o InsertByCount(item, Tail(sorted))
    ELSE <<item>> \o sorted

RECURSIVE SortedByCount(_)
SortedByCount(items) ==
    IF items = <<>> THEN <<>>
    ELSE InsertByCount(items[Len(items)], SortedByCount(SubSeq(items, 1, Len(items) - 1)))

\* lines 24-30: what save_locations writes
save_locations(locations) == SortedByCount(locations)

\* line 11: " ".join(str(name).split()).strip()
_normalize_name(name) == Words(name)

\* lines 58-62: one item into the merged dict (kept in insertion order)
MergeNamed(merged, name, count) ==
    IF name = <<>> THEN merged
    ELSE IF \E i \in 1..Len(merged) : merged[i].name = name
         THEN [i \in 1..Len(merged) |->
                  IF merged[i].name = name /\ merged[i].count < count
                  THEN LocationItem(name, count) ELSE merged[i]]
    ELSE Append(merged, LocationItem(name, count))

\* lines 49-62: merged.values()
RECURSIVE MergedLocations(_)
MergedLocations(items) ==
    IF items = <<>> THEN <<>>
    ELSE MergeNamed(MergedLocations(SubSeq(items, 1, Len(items) - 1)),
                    _normalize_name(items[Len(items)].name), items[Len(items)].count)

\* lines 43-64
get_locations(stored) == SortedByCount(MergedLocations(stored))

\* the lists a caller saves
MaxEntries == 3
LocationInputs ==
    {LocationItem(<<W_Hebbal>>, 5), LocationItem(<<W_Hebbal, Space>>, 3),
     LocationItem(<<W_hebbal>>, 3), LocationItem(<<W_Hebbal, Space, Space, W_Kempapura>>, 7),
     LocationItem(<<Space>>, 5)}
LocationLists == UNION {[1..n -> LocationInputs] : n \in 0..MaxEntries}

\* location_service.save_locations(entries)
SaveLocations(entries) ==
    /\ locationsFile' = save_locations(entries)
    /\ lib' = [op |-> "save_locations", entries |-> entries]
    /\ UNCHANGED <<conversations, houses, req, uuids, served, workers, turns, supplied,
                   houseLock, sp, storeCalls, clients, api, trainingDone, environ, modelDir,
                   metricsFile, boots, boot, ui, sup>>

\* location_service.get_locations()
GetLocations ==
    /\ lib' = [op |-> "get_locations", stored |-> locationsFile,
               result |-> get_locations(locationsFile)]
    /\ UNCHANGED <<conversations, houses, req, uuids, served, workers, turns, supplied,
                   houseLock, sp, storeCalls, clients, api, trainingDone, environ, modelDir,
                   metricsFile, locationsFile, boots, boot, ui, sup>>

(***************************************************************************)
(* BengaluruPreprocessor: the fitted columns and the single-row frame.     *)
(***************************************************************************)
W_BHK == <<"B", "H", "K">>
W_other == <<"o", "t", "h", "e", "r">>

\* the characters of the location names, in code point order
CodePoints == <<" ", "H", "K", "M", "a", "b", "e", "h", "l", "m", "o", "p", "r", "s", "t", "u">>
Ord(c) == CHOOSE i \in 1..Len(CodePoints) : CodePoints[i] = c

\* the characters of a text
RECURSIVE FlatChars(_)
FlatChars(text) == IF text = <<>> THEN <<>> ELSE Head(text) \o FlatChars(Tail(text))

\* str < str of Python, on characters
RECURSIVE CharsLess(_, _)
CharsLess(a, b) ==
    IF b = <<>> THEN FALSE
    ELSE IF a = <<>> THEN TRUE
    ELSE IF Head(a) = Head(b) THEN CharsLess(Tail(a), Tail(b))
    ELSE Ord(Head(a)) < Ord(Head(b))

\* sorted(names) for a set of distinct names
RECURSIVE SortedNames(_)
SortedNames(names) ==
    IF names = {} THEN <<>>
    ELSE LET first == CHOOSE n \in names :
                          \A m \in names \ {n} : CharsLess(FlatChars(n), FlatChars(m))
         IN  <<first>> \o SortedNames(names \ {first})

\* the state of a preprocessor: default_factory=list for both fields (lines 47-48)
Preprocessor(location_categories, feature_columns) ==
    [location_categories |-> location_categories, feature_columns |-> feature_columns]
Unfitted == Preprocessor(<<>>, <<>>)

\* lines 141-153: the columns of X, the numeric ones and then one per category
BaseColumns == << <<W_total_sqft>>, <<W_bath>>, <<W_BHK>> >>

\* lines 76-82, on the location column of the cleaned frame
fit_transform(cleaned) ==
    Preprocessor(SortedNames({cleaned[i] : i \in 1..Len(cleaned)} \ {<<W_other>>}),
                 BaseColumns \o SortedNames({cleaned[i] : i \in 1..Len(cleaned)} \ {<<W_other>>}))

\* preprocessing.py lines 40-155: the methods the class defines
PreprocessorMethods ==
    {"load_raw", "clean_dataframe", "fit_transform", "transform_input", "_bucket_locations",
     "_remove_pps_outliers", "_remove_bhk_outliers", "_build_features"}

\* self.preprocessor.<name>(cleaned) for a fitting method: a name the class does
\* not define raises AttributeError and leaves the preprocessor as it was
CallFit(name, cleaned) ==
    IF name \notin PreprocessorMethods THEN [raised |-> TRUE, preprocessor |-> Unfitted]
    ELSE [raised |-> FALSE, preprocessor |-> fit_transform(cleaned)]

\* modeling.py lines 117-133, on the location columns of the two cleaned frames
prepare_data(base_clean, history_clean) ==
    [history_rows_used |-> Len(history_clean),
     latest_training_df |-> base_clean \o history_clean,
     fit |-> CallFit("fit_transform_cleaned", base_clean \o history_clean)]

\* modeling.py line 138: train_models starts with prepare_data and raises when it does
train_models_raises(base_clean, history_clean) ==
    prepare_data(base_clean, history_clean).fit.raised

Cell(column, value) == [column |-> column, value |-> value]

\* lines 92-94
BaseFrame(total_sqft, bath, bhk) ==
    <<Cell(<<W_total_sqft>>, ToFloat(total_sqft)), Cell(<<W_bath>>, ToInt(bath)),
      Cell(<<W_BHK>>, ToInt(bhk))>>

\* lines 95-97: a zero per category, and a one under the label when it is a category
Dummies(categories, label) ==
    [i \in 1..Len(categories) |->
        Cell(categories[i], IntV(IF categories[i] = label THEN 1 ELSE 0))]

\* line 100: reindex(columns=..., fill_value=0)
Reindex(features, columns) ==
    [i \in 1..Len(columns) |->
        IF \E j \in 1..Len(features) : features[j].column = columns[i]
        THEN features[CHOOSE j \in 1..Len(features) : features[j].column = columns[i]]
        ELSE Cell(columns[i], IntV(0))]

TransformRaised == [raised |-> TRUE, row |-> <<>>]
TransformRow(row) == [raised |-> FALSE, row |-> row]

transform_input_unstripped(preprocessor, location, total_sqft, bath, bhk) ==
    IF preprocessor.feature_columns = <<>> THEN TransformRaised
    ELSE TransformRow(Reindex(BaseFrame(total_sqft, bath, bhk)
                                  \o Dummies(preprocessor.location_categories, location),
                              preprocessor.feature_columns))

\* lines 84-100
transform_input(preprocessor, location, total_sqft, bath, bhk) ==
    IF preprocessor.feature_columns = <<>> THEN TransformRaised
    ELSE TransformRow(Reindex(BaseFrame(total_sqft, bath, bhk)
                                  \o Dummies(preprocessor.location_categories, Strip(location)),
                              preprocessor.feature_columns))

\* the location column of a cleaned training frame, and the inputs of a prediction
MaxRows == 2
CleanedNames == {<<W_Mars>>, <<W_Hebbal>>, <<W_Hebbal, Space, W_Kempapura>>, <<W_other>>}
CleanedColumns == UNION {[1..n -> CleanedNames] : n \in 0..MaxRows}
Preprocessors == {Unfitted} \cup {fit_transform(cleaned) : cleaned \in CleanedColumns}
TransformLocations ==
    {<<W_Hebbal>>, <<Space, W_Hebbal, Space>>, <<W_hebbal>>, <<W_Mars>>, <<W_other>>, <<>>}
TransformSqfts == {IntV(1200), FloatV(105050)}
TransformBaths == {IntV(2)}
TransformBhks == {IntV(3)}

HistoryColumns == {<<>>, << <<W_Hebbal>> >>}

\* trainer.prepare_data(csv_path, history_path) with the data file there
PrepareData(base_clean, history_clean) ==
    /\ lib' = [op |-> "prepare_data", base_clean |-> base_clean,
               history_clean |-> history_clean,
               result |-> prepare_data(base_clean, history_clean)]
    /\ UNCHANGED <<conversations, houses, req, uuids, served, workers, turns, supplied,
                   houseLock, sp, storeCalls, clients, api, trainingDone, environ, modelDir,
                   metricsFile, locationsFile, boots, boot, ui, sup>>

\* preprocessor.transform_input(location=..., total_sqft=..., bath=..., bhk=...)
TransformInput(preprocessor, location, total_sqft, bath, bhk) ==
    /\ lib' = [op |-> "transform_input", preprocessor |-> preprocessor, location |-> location,
               total_sqft |-> total_sqft, bath |-> bath, bhk |-> bhk,
               result |-> transform_input(preprocessor, location, total_sqft, bath, bhk)]
    /\ UNCHANGED <<conversations, houses, req, uuids, served, workers, turns, supplied,
                   houseLock, sp, storeCalls, clients, api, trainingDone, environ, modelDir,
                   metricsFile, locationsFile, boots, boot, ui, sup>>

(***************************************************************************)
(* api.py: create_app and the training it runs at startup. A file of the   *)
(* models directory is [model, run]: what was dumped and by which call.    *)
(***************************************************************************)
W_suffix == <<"_", "B", "e", "n", "g", "a", "l", "u", "r", "u", "H", "o", "u", "s", "e", ".", "p", "k", "l">>
W_preprocessor_pkl == <<"p", "r", "e", "p", "r", "o", "c", "e", "s", "s", "o", "r", ".", "p", "k", "l">>

\* modeling.py line 185: f"{best_model_name}_BengaluruHouse.pkl"
BestFilename(best_model_name) == StrV(<<best_model_name \o W_suffix>>)

\* line 91: the name used when nothing else names a model file
DefaultModelFilename == BestFilename(W_linear_regression)

\* line 127: os.getenv("SKIP_TRAINING_ON_START", "").lower() in ("1", "true", "yes")
skip_training(env) ==
    "SKIP_TRAINING_ON_START" \in DOMAIN env
    /\ LowerText(env["SKIP_TRAINING_ON_START"].s)
           \in {<< <<"1">> >>, << <<"t", "r", "u", "e">> >>, << <<"y", "e", "s">> >>}

\* modeling.py lines 167-189: save_artifacts dumps the best model and the preprocessor
save_artifacts(dir, best_name, run) ==
    Update(dir, [x \in {best_name \o W_suffix, W_preprocessor_pkl} |->
                    [model |-> IF x = W_preprocessor_pkl THEN W_preprocessor_pkl ELSE best_name,
                     run |-> run]])

\* modeling.py lines 248-273: save_metrics_file appends to the history
save_metrics_file(history, model_name, model_filename, metric) ==
    Append(history, MetricsEntry(model_name, model_filename, metric))

\* lines 96-101: value_counts() of the training locations without "other"
locations_payload(counts) == SelectSeq(counts, LAMBDA item : item.name # <<W_other>>)

\* lines 84-92 when the model is kept: the file name the environment ends with
KeptEnviron(env, best_file) ==
    IF Truthy(best_file) THEN Put(env, "HOUSE_MODEL_FILENAME", best_file)
    ELSE IF "HOUSE_MODEL_FILENAME" \in DOMAIN env THEN env
    ELSE Put(env, "HOUSE_MODEL_FILENAME", DefaultModelFilename)

\* what a call of create_app leaves in the log of the process
BootLog(trained, raised, should_save, metrics, best_name, saved_metrics, counts) ==
    [call |-> boots + 1, done_before |-> trainingDone, trained |-> trained, raised |-> raised,
     metrics |-> metrics,
     runs |-> Get0(boot, "runs") + (IF trained THEN 1 ELSE 0),
     should_save |-> should_save, best_name |-> best_name, saved_metrics |-> saved_metrics,
     counts |-> counts, environ |-> environ, modelDir |-> modelDir,
     metricsFile |-> metricsFile, locationsFile |-> locationsFile]

\* lines 66-82 and 95-102: the new model replaces the saved one
SaveRun(metrics, counts, best_name, saved_metrics) ==
    /\ modelDir' = save_artifacts(modelDir, best_name, boots + 1)
    /\ metricsFile' = save_metrics_file(metricsFile, best_name, BestFilename(best_name),
                                        MetricOf(metrics, best_name))
    /\ environ' = Put(environ, "HOUSE_MODEL_FILENAME", BestFilename(best_name))
    /\ locationsFile' = save_locations(locations_payload(counts))
    /\ boot' = BootLog(TRUE, FALSE, TRUE, metrics, best_name, saved_metrics, counts)

\* lines 83-92: the saved model is kept
KeepRun(metrics, counts, best_name, saved_metrics) ==
    /\ environ' = KeptEnviron(environ, Get(saved_metrics, "model_filename"))
    /\ boot' = BootLog(TRUE, FALSE, FALSE, metrics, best_name, saved_metrics, counts)
    /\ UNCHANGED <<modelDir, metricsFile, locationsFile>>

\* lines 44-47: the decision
Decide(metrics, counts, best_name, saved_metrics) ==
    IF should_replace_model(MetricOf(metrics, best_name), saved_metrics)
    THEN SaveRun(metrics, counts, best_name, saved_metrics)
    ELSE KeepRun(metrics, counts, best_name, saved_metrics)

\* lines 29-118, the data file being there, once train_models has returned `metrics`
\* and the training frame has the location counts `counts`
_run_model_training(metrics, counts) ==
    Decide(metrics, counts, select_best_model(metrics), load_saved_metrics(metricsFile))

\* lines 39-40: the data file is not there
TrainingRaises ==
    /\ boot' = BootLog(FALSE, TRUE, FALSE, <<>>, <<>>, NoneV, <<>>)
    /\ UNCHANGED <<trainingDone, environ, modelDir, metricsFile, locationsFile>>

\* line 43: train_models raises, and the exception leaves create_app before
\* line 131 sets _TRAINING_DONE
TrainingAborts ==
    /\ boot' = BootLog(TRUE, TRUE, FALSE, <<>>, <<>>, NoneV, <<>>)
    /\ UNCHANGED <<trainingDone, environ, modelDir, metricsFile, locationsFile>>

\* lines 132-158: no training in this call
NoTraining ==
    /\ boot' = BootLog(FALSE, FALSE, FALSE, <<>>, <<>>, NoneV, <<>>)
    /\ UNCHANGED <<trainingDone, environ, modelDir, metricsFile, locationsFile>>

\* what train_models can return: both models scored, each with a CV R2
TrainedMaps ==
    {<<[name |-> W_linear_regression, metric |-> a], [name |-> W_random_forest, metric |-> b]>> :
        a, b \in {m \in MetricInputs : m.cv_r2 # NoneV}}
TrainingCounts ==
    {<<LocationItem(<<W_Hebbal>>, 7), LocationItem(<<W_other>>, 5), LocationItem(<<W_Mars>>, 3)>>,
     <<LocationItem(<<W_other>>, 5)>>}

\* the number of create_app calls of one process
MaxBoots == 3

\* lines 124-158: one call of create_app
CreateApp ==
    /\ boots < MaxBoots
    /\ boots' = boots + 1
    /\ IF skip_training(environ) \/ trainingDone THEN NoTraining
       ELSE \E data_exists \in BOOLEAN :
                IF ~data_exists THEN TrainingRaises
                ELSE \E base_clean \in CleanedColumns, history_clean \in HistoryColumns :
                         IF train_models_raises(base_clean, history_clean)
                         THEN TrainingAborts
                         ELSE /\ \E metrics \in TrainedMaps, counts \in TrainingCounts :
                                     _run_model_training(metrics, counts)
                              /\ trainingDone' = TRUE
    /\ UNCHANGED <<conversations, houses, req, uuids, served, workers, turns, supplied,
                   houseLock, sp, storeCalls, clients, api, lib, ui, sup>>

\* what the process starts with: its environment and the metrics.json of earlier
\* processes (a history, or the single record of the older format)
E_good == MetricsEntry(W_random_forest, BestFilename(W_random_forest),
                       ModelMetrics(FloatV(250), FloatV(1200), FloatV(80)))
E_weak == MetricsEntry(W_linear_regression, BestFilename(W_linear_regression),
                       ModelMetrics(FloatV(250), FloatV(1200), FloatV(0 - 50)))
E_legacy == [metrics |-> as_dict(ModelMetrics(FloatV(250), FloatV(1200), FloatV(80)))]
HistoryInputs == {<<>>, <<E_good>>, <<E_weak>>, <<E_weak, E_good>>, <<E_legacy>>}
SkipInputs == {<< <<"1">> >>, << <<"T", "r", "u", "e">> >>, << <<"0">> >>}
EnvInputs ==
    {Update(a, b) :
        a \in {EmptyDict} \cup {[x \in {"SKIP_TRAINING_ON_START"} |-> StrV(v)] : v \in SkipInputs},
        b \in {EmptyDict, [x \in {"HOUSE_MODEL_FILENAME"} |-> BestFilename(W_extra)]}}

(***************************************************************************)
(* The stores' reads over any content of their file. A JSON value is       *)
(* [t, items, members]: for an array its items, for an object its keys (what*)
(* iterating it yields) and its members.                                   *)
(***************************************************************************)
JArray(items) == [t |-> "array", items |-> items, members |-> EmptyDict]
JString(chars) == [t |-> "string", items |-> <<>>, members |-> [x \in {"chars"} |-> chars]]
JNumber == [t |-> "number", items |-> <<>>, members |-> EmptyDict]
JObject(keys, members) == [t |-> "object", items |-> keys, members |-> members]
JEmptyObject == JObject(<<>>, EmptyDict)

\* a file on disk: whether it is there, whether json.loads accepts it, what it holds
JsonFile(exists, parses, doc) == [exists |-> exists, parses |-> parses, doc |-> doc]

\* lines 26-32 and 57-63: _read, `empty` being {} or []
_read(file, empty) ==
    IF ~file.exists THEN empty
    ELSE IF ~file.parses THEN empty
    ELSE file.doc

ReadRaised == [raised |-> TRUE, value |-> NoneV]
ReadReturned(value) == [raised |-> FALSE, value |-> value]

\* list(x): the items of an array, the keys of an object, TypeError for a number
list_of(doc) ==
    IF doc.t \in {"array", "object"} THEN ReadReturned(doc.items) ELSE ReadRaised

\* line 40: list(data.get(session_id, [])); AttributeError when data has no .get
history_of(data, session_id) ==
    IF data.t # "object" THEN ReadRaised
    ELSE IF session_id \notin DOMAIN data.members THEN ReadReturned(<<>>)
    ELSE list_of(data.members[session_id])

\* lines 37-40: LocalConversationStore.get_history on the file
read_history(file, session_id) == history_of(_read(file, JEmptyObject), session_id)

\* lines 96-98: the loop over the items; item.get raises on an item that is no object
RECURSIVE first_of_session(_, _)
first_of_session(items, session_id) ==
    IF items = <<>> THEN ReadReturned(NoneV)
    ELSE IF Head(items).t # "object" THEN ReadRaised
    ELSE IF Get(Head(items).members, "session_id") = StrV(session_id)
         THEN ReadReturned(Head(items))
    ELSE first_of_session(Tail(items), session_id)

\* lines 93-99: LocalHouseStore.get_record_by_session on the file
read_record_by_session(file, session_id) ==
    IF _read(file, JArray(<<>>)).t \notin {"array", "object"} THEN ReadRaised
    ELSE first_of_session(_read(file, JArray(<<>>)).items, session_id)

\* lines 163-165: LocalHouseStore.list_records on the file
list_records(file) == list_of(_read(file, JArray(<<>>)))

\* contents of conversations.json and of houses.json
J_message == JObject(<<JString(<<"r">>), JString(<<"c">>)>>,
                     [x \in {"role", "content"} |-> StrV(<<W_ok>>)])
J_record == JObject(<<JString(<<"s">>)>>, [x \in {"session_id"} |-> StrV(<<W_s1>>)])
ConversationFiles ==
    {JsonFile(FALSE, FALSE, JNumber), JsonFile(TRUE, FALSE, JNumber)} \cup
    {JsonFile(TRUE, TRUE, doc) :
        doc \in {JEmptyObject, JArray(<<>>), JNumber,
                 JObject(<<JString(W_s1)>>, [x \in {<<W_s1>>} |-> JNumber]),
                 JObject(<<JString(W_s1)>>, [x \in {<<W_s1>>} |-> JArray(<<J_message>>)])}}
HouseFiles ==
    {JsonFile(FALSE, FALSE, JNumber), JsonFile(TRUE, FALSE, JNumber)} \cup
    {JsonFile(TRUE, TRUE, doc) :
        doc \in {JArray(<<>>), JEmptyObject, JNumber, JArray(<<JNumber>>),
                 JObject(<<JString(<<"a">>)>>, [x \in {"a"} |-> JNumber]),
                 JArray(<<J_record>>), JArray(<<J_record, JNumber>>),
                 JArray(<<JNumber, J_record>>)}}

\* conversation_store.get_history(session_id) over a file
ReadHistoryFile(file, session_id) ==
    /\ lib' = [op |-> "get_history", file |-> file, session_id |-> session_id,
               result |-> read_history(file, session_id)]
    /\ UNCHANGED <<conversations, houses, req, uuids, served, workers, turns, supplied,
                   houseLock, sp, storeCalls, clients, api, trainingDone, environ, modelDir,
                   metricsFile, locationsFile, boots, boot, ui, sup>>

\* house_store.get_record_by_session(session_id) over a file
ReadRecordFile(file, session_id) ==
    /\ lib' = [op |-> "get_record_by_session", file |-> file, session_id |-> session_id,
               result |-> read_record_by_session(file, session_id)]
    /\ UNCHANGED <<conversations, houses, req, uuids, served, workers, turns, supplied,
                   houseLock, sp, storeCalls, clients, api, trainingDone, environ, modelDir,
                   metricsFile, locationsFile, boots, boot, ui, sup>>

\* house_store.list_records() over a file
ListRecordsFile(file) ==
    /\ lib' = [op |-> "list_records", file |-> file, session_id |-> <<>>,
               result |-> list_records(file)]
    /\ UNCHANGED <<conversations, houses, req, uuids, served, workers, turns, supplied,
                   houseLock, sp, storeCalls, clients, api, trainingDone, environ, modelDir,
                   metricsFile, locationsFile, boots, boot, ui, sup>>

(***************************************************************************)
(* frontend/ui.py: the Streamlit script. Each interaction runs the script  *)
(* to its end; st.rerun() starts it again within the same step.            *)
(***************************************************************************)
\* lines 43-52: st.session_state.setdefault(...), and nothing sent yet
InitUi ==
    [show_form |-> FALSE, form_memory |-> EmptyDict, pending_form_message |-> NoneV,
     sent |-> <<>>, error |-> "", submitted |-> EmptyDict]

\* input_form.py lines 53-59: what show_input_form returns on submit
show_input_form(selected_loc, sqft, bhk, bath) ==
    [location |-> selected_loc, sqft |-> sqft, bhk |-> bhk, bath |-> bath]

\* ui.py line 292: the keys whose value is None or ""
FormMissing(form_data) == {k \in DOMAIN form_data : Blank(form_data[k])}

\* lines 297-301: the f-string reads these keys of form_data
MessageKeys == {"location", "total_sqft", "bath", "bhk"}

\* the chat turn the f-string describes: the values it puts into the text
FormMessage(form_data) == [kind |-> "form", carries |-> [k \in MessageKeys |-> form_data[k]]]
PromptMessage(prompt) == [kind |-> "prompt", carries |-> [k \in {"text"} |-> StrV(prompt)]]

\* lines 86-104: handle_chat appends the turn and posts it to the backend
handle_chat(state, message) == [state EXCEPT !.sent = Append(@, message)]

\* lines 289-311 on a submitted form
Submitted(state, form_data) ==
    IF FormMissing(form_data) # {}
    THEN [state EXCEPT !.error = "", !.submitted = form_data]
    ELSE IF ~(MessageKeys \subseteq DOMAIN form_data)
         THEN [state EXCEPT !.form_memory = form_data, !.error = "KeyError",
                            !.submitted = form_data]
    ELSE handle_chat([state EXCEPT !.form_memory = form_data, !.show_form = FALSE,
                                   !.pending_form_message = NoneV, !.error = "",
                                   !.submitted = form_data],
                     FormMessage(form_data))

\* what the form's widgets can hold on submit: index=None leaves the location unset
FormLocations == {NoneV, StrV(<<W_Hebbal>>)}
FormSqfts == {FloatV(30000), FloatV(120000)}
FormCounts == {IntV(1), IntV(3)}

\* the number of chat turns the front end sends
MaxTurns == 2

\* lines 247-251: the Form button
ClickForm ==
    /\ sup.proc = "running"
    /\ ui' = [ui EXCEPT !.show_form = ~@, !.error = "", !.submitted = EmptyDict]
    /\ UNCHANGED <<conversations, houses, req, uuids, served, workers, turns, supplied,
                   houseLock, sp, storeCalls, clients, api, trainingDone, environ, modelDir,
                   metricsFile, locationsFile, boots, boot, lib, sup>>

\* lines 254-311: the form's submit button
SubmitForm(selected_loc, sqft, bhk, bath) ==
    /\ sup.proc = "running"
    /\ ui.show_form
    /\ Len(ui.sent) < MaxTurns
    /\ ui' = Submitted(ui, show_input_form(selected_loc, sqft, bhk, bath))
    /\ UNCHANGED <<conversations, houses, req, uuids, served, workers, turns, supplied,
                   houseLock, sp, storeCalls, clients, api, trainingDone, environ, modelDir,
                   metricsFile, locationsFile, boots, boot, lib, sup>>

\* lines 244 and 313-315: a typed message
TypePrompt(prompt) ==
    /\ sup.proc = "running"
    /\ Len(ui.sent) < MaxTurns
    /\ ui' = handle_chat([ui EXCEPT !.error = "", !.submitted = EmptyDict],
                         PromptMessage(prompt))
    /\ UNCHANGED <<conversations, houses, req, uuids, served, workers, turns, supplied,
                   houseLock, sp, storeCalls, clients, api, trainingDone, environ, modelDir,
                   metricsFile, locationsFile, boots, boot, lib, sup>>

(***************************************************************************)
(* demo/app.py: main() from the point where both servers have been started.*)
(***************************************************************************)
\* lines 74-80: both servers started, main() about to enter the wait loop
InitSup ==
    [pc |-> "loop", proc |-> "running", api_shutdown |-> FALSE, terminated |-> FALSE,
     killed |-> FALSE, interrupts |-> 0]

\* the number of operator interrupts
MaxInterrupts == 2

\* the front-end process ends by itself (or after terminate)
FrontEndExits ==
    /\ sup.proc = "running"
    /\ sup' = [sup EXCEPT !.proc = "exited"]
    /\ UNCHANGED <<conversations, houses, req, uuids, served, workers, turns, supplied,
                   houseLock, sp, storeCalls, clients, api, trainingDone, environ, modelDir,
                   metricsFile, locationsFile, boots, boot, lib, ui>>

\* where a KeyboardInterrupt takes main(): the wait loop's handler catches it and
\* the finally block follows; raised inside the finally block it leaves main()
AfterInterrupt(pc) == IF pc = "loop" THEN "finally" ELSE "raised"

\* an operator interrupt while main() runs
Interrupt ==
    /\ sup.pc \in {"loop", "finally", "in_shutdown", "shutdown_process", "wait"}
    /\ sup.interrupts < MaxInterrupts
    /\ sup' = [sup EXCEPT !.pc = AfterInterrupt(@), !.interrupts = @ + 1]
    /\ UNCHANGED <<conversations, houses, req, uuids, served, workers, turns, supplied,
                   houseLock, sp, storeCalls, clients, api, trainingDone, environ, modelDir,
                   metricsFile, locationsFile, boots, boot, lib, ui>>

\* lines 81-83: ui_proc.poll() is no longer None
LoopEnds ==
    /\ sup.pc = "loop"
    /\ sup.proc = "exited"
    /\ sup' = [sup EXCEPT !.pc = "finally"]
    /\ UNCHANGED <<conversations, houses, req, uuids, served, workers, turns, supplied,
                   houseLock, sp, storeCalls, clients, api, trainingDone, environ, modelDir,
                   metricsFile, locationsFile, boots, boot, lib, ui>>

\* line 87: api_server.shutdown() is called and waits for the serving thread
CallShutdown ==
    /\ sup.pc = "finally"
    /\ sup' = [sup EXCEPT !.pc = "in_shutdown", !.api_shutdown = TRUE]
    /\ UNCHANGED <<conversations, houses, req, uuids, served, workers, turns, supplied,
                   houseLock, sp, storeCalls, clients, api, trainingDone, environ, modelDir,
                   metricsFile, locationsFile, boots, boot, lib, ui>>

\* line 87: api_server.shutdown() returns
ShutdownReturns ==
    /\ sup.pc = "in_shutdown"
    /\ sup' = [sup EXCEPT !.pc = "shutdown_process"]
    /\ UNCHANGED <<conversations, houses, req, uuids, served, workers, turns, supplied,
                   houseLock, sp, storeCalls, clients, api, trainingDone, environ, modelDir,
                   metricsFile, locationsFile, boots, boot, lib, ui>>

\* lines 46-50: shutdown_process up to proc.terminate()
shutdown_process ==
    /\ sup.pc = "shutdown_process"
    /\ sup' = IF sup.proc = "running"
              THEN [sup EXCEPT !.pc = "wait", !.terminated = TRUE]
              ELSE [sup EXCEPT !.pc = "returned"]
    /\ UNCHANGED <<conversations, houses, req, uuids, served, workers, turns, supplied,
                   houseLock, sp, storeCalls, clients, api, trainingDone, environ, modelDir,
                   metricsFile, locationsFile, boots, boot, lib, ui>>

\* lines 51-54: proc.wait(timeout=5) returns, or times out and proc.kill() follows
WaitEnds ==
    /\ sup.pc = "wait"
    /\ sup' = IF sup.proc = "running"
              THEN [sup EXCEPT !.pc = "returned", !.killed = TRUE, !.proc = "exited"]
              ELSE [sup EXCEPT !.pc = "returned"]
    /\ UNCHANGED <<conversations, houses, req, uuids, served, workers, turns, supplied,
                   houseLock, sp, storeCalls, clients, api, trainingDone, environ, modelDir,
                   metricsFile, locationsFile, boots, boot, lib, ui>>

\* the texts of the direct calls of _extract_fields with the allow-list
M_elsewhere == <<W_Hebbal, W_Kempapura, W_comma, N_1200, W_sqft, W_in, W_Mars>>
M_no_marker == <<W_hebbal, N_1200, W_sqft>>
ExtractTexts == {M_elsewhere, M_no_marker, M_mars, M_full, M_loc_sqft, M_bath_bhk, M_blank}

\* a direct call of _extract_fields(text, allowed_lookup=..., allowed_names=...)
ExtractFields(text) ==
    /\ lib' = [op |-> "_extract_fields", text |-> text, result |-> _extract_fields(text, TRUE)]
    /\ UNCHANGED <<conversations, houses, req, uuids, served, workers, turns, supplied,
                   houseLock, sp, storeCalls, clients, api, trainingDone, environ, modelDir,
                   metricsFile, locationsFile, boots, boot, ui, sup>>

\* the metrics.json files of the direct calls of load_saved_metrics
MaxSaved == 2
E_no_metrics == [model_name |-> StrV(<<W_extra>>)]
E_no_rmse == [metrics |-> [mape |-> FloatV(1200)]]
E_number == [metrics |-> IntV(5)]
SavedEntries == {E_good, E_weak, E_no_metrics, E_no_rmse, E_number, IntV(5)}
MetricsFiles ==
    {MetricsJson(FALSE, FALSE, "other", <<>>), MetricsJson(TRUE, FALSE, "other", <<>>),
     MetricsJson(TRUE, TRUE, "other", <<>>), MetricsJson(TRUE, TRUE, "single", <<E_legacy>>),
     MetricsJson(TRUE, TRUE, "single", <<E_no_metrics>>)} \cup
    {MetricsJson(TRUE, TRUE, shape, entries) :
        shape \in {"history", "list"},
        entries \in UNION {[1..n -> SavedEntries] : n \in 0..MaxSaved}}

\* a direct call of load_saved_metrics(metrics_path)
LoadSavedMetrics(file) ==
    /\ lib' = [op |-> "load_saved_metrics", file |-> file,
               result |-> load_saved_metrics(_read_metrics_history(file))]
    /\ UNCHANGED <<conversations, houses, req, uuids, served, workers, turns, supplied,
                   houseLock, sp, storeCalls, clients, api, trainingDone, environ, modelDir,
                   metricsFile, locationsFile, boots, boot, ui, sup>>

\* the message lists of the direct calls of _merge_fields_from_history
MaxHistory == 3
M_bhk2 == <<N_2, W_bhk>>
HistoryMessages ==
    {[role |-> "user", content |-> M_bath_bhk], [role |-> "assistant", content |-> R_bath],
     [role |-> "user", content |-> M_bhk2], [role |-> "assistant", content |-> M_loc_sqft],
     [role |-> "user", content |-> M_blank]}
Histories == UNION {[1..n -> HistoryMessages] : n \in 0..MaxHistory}

\* a direct call of _merge_fields_from_history
MergeFields(history) ==
    /\ lib' = [op |-> "_merge_fields_from_history", history |-> history,
               result |-> _merge_fields_from_history(history)]
    /\ UNCHANGED <<conversations, houses, req, uuids, served, workers, turns, supplied,
                   houseLock, sp, storeCalls, clients, api, trainingDone, environ, modelDir,
                   metricsFile, locationsFile, boots, boot, ui, sup>>

\* a direct call of select_best_model
SelectBest(ms) ==
    /\ lib' = [op |-> "select_best_model", metrics |-> Named(ms),
               result |-> select_best_model(Named(ms))]
    /\ UNCHANGED <<conversations, houses, req, uuids, served, workers, turns, supplied,
                   houseLock, sp, storeCalls, clients, api, trainingDone, environ, modelDir,
                   metricsFile, locationsFile, boots, boot, ui, sup>>

\* a direct call of should_replace_model
ShouldReplace(new_metrics, saved_metrics) ==
    /\ lib' = [op |-> "should_replace_model", new_metrics |-> new_metrics,
               saved_metrics |-> saved_metrics,
               result |-> should_replace_model(new_metrics, saved_metrics)]
    /\ UNCHANGED <<conversations, houses, req, uuids, served, workers, turns, supplied,
                   houseLock, sp, storeCalls, clients, api, trainingDone, environ, modelDir,
                   metricsFile, locationsFile, boots, boot, ui, sup>>

(***************************************************************************)
(* LocalHouseStore under concurrent callers: each call takes the store's   *)
(* lock, reads the file, changes the list, writes the file, releases.      *)
(***************************************************************************)
Procs == {"p1", "p2"}

\* the session id a client thread upserts under (distinct per thread)
SessionOf(p) == IF p = "p1" THEN << <<"a">> >> ELSE << <<"b">> >>

StoreArgs ==
    {Args(StrV(<<W_Hebbal>>), StrV(<<N_1200>>), NoneV, NoneV, NoneV, StrV(<<T_chat>>)),
     Args(NoneV, NoneV, StrV(<<N_2>>), StrV(<<N_3>>), FloatV(8550), StrV(<<T_chat>>)),
     Args(StrV(<<W_Hebbal, W_Kempapura>>), FloatV(120000), IntV(2), IntV(3), FloatV(12000),
          StrV(<<T_api>>))}

IdleCall ==
    [pc |-> "idle", op |-> "none", args |-> EmptyDict, id |-> <<>>, data |-> <<>>,
     returned |-> EmptyDict]

\* threading.Lock: `with self._lock` enters only when nobody holds the lock
CanAcquire_unlocked(lock) == TRUE

CanAcquire(lock) == lock = "free"

\* a client thread calls upsert_session_record or add_record (add_record builds its
\* record, uuid included, before it takes the lock)
StoreCall(p, op, a) ==
    /\ sp[p].pc = "idle"
    /\ storeCalls < MaxStoreCalls
    /\ op = "add_record" => a.total_sqft # NoneV /\ a.bath # NoneV /\ a.bhk # NoneV
    /\ sp' = [sp EXCEPT ![p] = [IdleCall EXCEPT !.pc = "acquire", !.op = op, !.args = a,
                                                !.id = IF op = "add_record" THEN Uuid(uuids)
                                                       ELSE <<>>]]
    /\ uuids' = IF op = "add_record" THEN uuids + 1 ELSE uuids
    /\ storeCalls' = storeCalls + 1
    /\ UNCHANGED <<conversations, houses, req, served, workers, turns, supplied, houseLock, clients, sideVars>>

\* with self._lock:
StoreAcquire(p) ==
    /\ sp[p].pc = "acquire"
    /\ CanAcquire(houseLock)
    /\ houseLock' = p
    /\ sp' = [sp EXCEPT ![p].pc = "read"]
    /\ UNCHANGED <<conversations, houses, req, uuids, served, workers, turns, supplied, storeCalls, clients, sideVars>>

\* data = self._read()
StoreRead(p) ==
    /\ sp[p].pc = "read"
    /\ sp' = [sp EXCEPT ![p].pc = "write", ![p].data = houses]
    /\ UNCHANGED <<conversations, houses, req, uuids, served, workers, turns, supplied,
                   houseLock, storeCalls, clients, sideVars>>

\* change the list that was read and self._write(data)
StoreWrite(p) ==
    /\ sp[p].pc = "write"
    /\ LET c == sp[p]
           res == IF c.op = "add_record" THEN add_record(c.data, c.args, c.id)
                  ELSE upsert_session_record(c.data, SessionOf(p), c.args, Uuid(uuids))
       IN  /\ houses' = res.data
           /\ uuids' = IF c.op # "add_record" /\ res.drew THEN uuids + 1 ELSE uuids
           /\ sp' = [sp EXCEPT ![p].pc = "release", ![p].returned = res.record]
    /\ UNCHANGED <<conversations, req, served, workers, turns, supplied, houseLock, storeCalls, clients, sideVars>>

\* leaving the with block, return
StoreRelease(p) ==
    /\ sp[p].pc = "release"
    /\ houseLock' = "free"
    /\ sp' = [sp EXCEPT ![p].pc = "idle"]
    /\ UNCHANGED <<conversations, houses, req, uuids, served, workers, turns, supplied, storeCalls, clients, sideVars>>

NextStore ==
    \/ \E p \in Procs, op \in {"upsert_session_record", "add_record"}, a \in StoreArgs :
           StoreCall(p, op, a)
    \/ \E p \in Procs : StoreAcquire(p)
    \/ \E p \in Procs : StoreRead(p)
    \/ \E p \in Procs : StoreWrite(p)
    \/ \E p \in Procs : StoreRelease(p)

(***************************************************************************)
(* The server: one worker thread (requests one at a time) or two.          *)
(***************************************************************************)
InitCore ==
    /\ conversations = EmptyDict
    /\ houses = <<>>
    /\ req = [t \in Threads |-> IdleReq]
    /\ uuids = 0
    /\ served = 0
    /\ turns = EmptyDict
    /\ supplied = EmptyDict
    /\ houseLock = "free"
    /\ sp = [p \in Procs |-> IdleCall]
    /\ storeCalls = 0
    /\ api = IdleApi
    /\ trainingDone = FALSE
    /\ modelDir = EmptyDict
    /\ locationsFile = <<>>
    /\ boots = 0
    /\ boot = EmptyDict
    /\ lib = EmptyDict
    /\ ui = InitUi
    /\ sup = InitSup

\* an empty environment and no metrics.json
InitStores == InitCore /\ environ = EmptyDict /\ metricsFile = <<>>

\* one worker thread, every payload
Init == InitStores /\ workers = {"w1"} /\ clients = Payloads

\* two worker threads, clients of one session
ConcPayloads ==
    {[message |-> m, session_id |-> StrV(<<W_s1, Space>>)] :
        m \in {StrV(M_blank), StrV(M_loc_sqft), StrV(M_mars)}}

InitConc == InitStores /\ workers = Threads /\ clients = ConcPayloads

Next ==
    \/ \E t \in Threads, payload \in Payloads : Receive(t, payload)
    \/ \E t \in Threads : ReadHouse(t)
    \/ \E t \in Threads : UpsertFields(t)
    \/ \E t \in Threads : ShortCircuit(t)
    \/ \E t \in Threads : Predict(t)
    \/ \E t \in Threads : LLMTurn(t)
    \/ \E t \in Threads, session_id \in DOMAIN conversations \cup {<<W_s1>>} : GetHistory(t, session_id)

Spec == Init /\ [][Next]_vars

SpecConc == InitConc /\ [][Next]_vars

\* the house store alone, called directly by two threads
InitStore == InitStores /\ workers = {} /\ clients = {}

SpecStore == InitStore /\ [][NextStore]_vars

\* the library functions, called directly
NextLib ==
    \/ \E ms \in MetricsMaps : SelectBest(ms)
    \/ \E new_metrics \in MetricInputs, saved_metrics \in SavedInputs :
           ShouldReplace(new_metrics, saved_metrics)
    \/ \E preprocessor \in Preprocessors, location \in TransformLocations,
          total_sqft \in TransformSqfts, bath \in TransformBaths, bhk \in TransformBhks :
           TransformInput(preprocessor, location, total_sqft, bath, bhk)
    \/ \E text \in ExtractTexts : ExtractFields(text)
    \/ \E file \in MetricsFiles : LoadSavedMetrics(file)
    \/ \E history \in Histories : MergeFields(history)
    \/ \E file \in ConversationFiles : ReadHistoryFile(file, <<W_s1>>)
    \/ \E file \in HouseFiles, session_id \in {<<W_s1>>, <<W_ok>>} :
           ReadRecordFile(file, session_id)
    \/ \E file \in HouseFiles : ListRecordsFile(file)
    \/ \E base_clean \in CleanedColumns, history_clean \in HistoryColumns :
           PrepareData(base_clean, history_clean)

SpecLib == InitStore /\ [][NextLib]_vars

\* the location service called directly
NextLoc ==
    \/ \E entries \in LocationLists : SaveLocations(entries)
    \/ GetLocations

SpecLoc == InitStore /\ [][NextLoc]_vars

\* the application factory, called up to MaxBoots times in one process
InitStartup ==
    InitCore /\ workers = {} /\ clients = {} /\ environ \in EnvInputs /\ metricsFile \in HistoryInputs

NextStartup == CreateApp

SpecStartup == InitStartup /\ [][NextStartup]_vars

\* the supervisor with the front end it has started
NextFront ==
    \/ ClickForm
    \/ \E selected_loc \in FormLocations, sqft \in FormSqfts, bhk \in FormCounts,
          bath \in FormCounts : SubmitForm(selected_loc, sqft, bhk, bath)
    \/ \E prompt \in {M_loc_sqft, M_bath_bhk} : TypePrompt(prompt)
    \/ FrontEndExits
    \/ Interrupt
    \/ LoopEnds
    \/ CallShutdown
    \/ ShutdownReturns
    \/ shutdown_process
    \/ WaitEnds

SpecFront == InitStore /\ [][NextFront]_vars

\* POST /api/house/predict alone, one request at a time
SpecApi == InitStore /\ [][NextApi]_vars

(***************************************************************************)
(* Properties.                                                             *)
(***************************************************************************)
\* a chat turn that got past the empty-message check
ChatTurn(t) == req[t].kind = "chat" /\ req[t].pc # "idle" /\ req[t].status # 400

\* the chat turn of worker t has been answered
ChatDone(t) == ChatTurn(t) /\ req[t].pc = "done"

StoredHistory(t) == get_history(conversations, req[t].session_id)
StoredHouse(t) == get_record_by_session(houses, req[t].session_id)
HouseAtStart(t) == get_record_by_session(req[t].houses0, req[t].session_id)

\* the fields that are absent or empty, in the order of the four
RECURSIVE BlankAmong(_, _)
BlankAmong(d, fs) ==
    IF fs = <<>> THEN <<>>
    ELSE (IF Blank(Get(d, Head(fs))) THEN <<Head(fs)>> ELSE <<>>) \o BlankAmong(d, Tail(fs))

StillMissing(d) == BlankAmong(d, Fields)

\* the fields of the turn, after merging and reconciliation, coerce to numbers
Coerces(d) == FloatOk(Get(d, "total_sqft")) /\ IntOk(Get(d, "bath")) /\ IntOk(Get(d, "bhk"))

\* the message names a location the directory does not know
UnsupportedTurn(t) ==
    /\ Truthy(Get(req[t].raw_fields, "location"))
    /\ ~Truthy(Get(req[t].canonical_fields, "location"))

\* the stored history is what the turn read, then the user turn, then the given reply
HistoryIsPriorPlus(t, reply) ==
    StoredHistory(t) = req[t].prior \o <<Msg("user", req[t].user_message), Msg("assistant", reply)>>

\* the outcome of a turn in which the model returned p and the LLM answered, the
\* reply being whatever text the LLM returned
C1_Outcome(t) ==
    LET r == req[t]
        d == r.reconciled
        rec == StoredHouse(t)
        get == get_history_response(conversations, r.session_id)
    IN  /\ r.status = 200
        /\ r.response.prediction = r.price
        /\ r.response.reply = r.llm_text
        /\ rec # EmptyDict
        /\ rec["location"] = Get(d, "location")
        /\ rec["total_sqft"] = ToFloat(Get(d, "total_sqft"))
        /\ rec["bath"] = ToInt(Get(d, "bath"))
        /\ rec["bhk"] = ToInt(Get(d, "bhk"))
        /\ rec["predicted_price_lakh"] = r.price
        /\ HistoryIsPriorPlus(t, r.llm_text)
        /\ get.status = 200
        /\ get.body.history = StoredHistory(t)

C1_Case(t) == ChatDone(t) /\ req[t].inference = "returned" /\ req[t].llm = "returned"

\* C1 as stated: when all four fields are known and coerce, the model returns p and
\* the LLM call succeeds, the response carries prediction p and a NON-EMPTY reply, the
\* session's house record holds the four fields and p, the stored history ends with
\* the user message and the reply, and a GET returns that stored history.
C1_AsStated ==
    \A t \in Threads : C1_Case(t) => C1_Outcome(t) /\ req[t].response.reply # <<>>

\* C1 amended: the same, with the reply being the text the LLM returned (which is
\* empty when the LLM service returns an empty text).
C1_PredictionTurn ==
    \A t \in Threads : C1_Case(t) => C1_Outcome(t)

C1_Witness ==
    \E t \in Threads : C1_Case(t) /\ req[t].response.reply # <<>> /\ req[t].prior # <<>>

\* C2: the inference service is called exactly when the unsupported-location reply
\* did not fire, no field is missing after merging and reconciliation, and the three
\* numbers coerce; with a field missing there is no inference call, no prediction,
\* and the hidden note of the turn (the one the LLM is given) lists the missing fields.
C2_InferenceIffComplete ==
    \A t \in Threads :
        ChatTurn(t) /\ req[t].pc \in {"ready_llm", "done"} =>
            LET r == req[t]
                missing == StillMissing(r.reconciled)
                note == <<Note("assistant", "missing",
                               [i \in 1..Len(missing) |-> NameV(missing[i])])>>
            IN  /\ r.inference # "none" <=>
                       (~UnsupportedTurn(t) /\ missing = <<>> /\ Coerces(r.reconciled))
                /\ missing # <<>> =>
                       /\ r.inference = "none"
                       /\ r.prediction_val = NoneV
                       /\ r.status = 200 => r.response.prediction = NoneV
                       /\ ~UnsupportedTurn(t) => r.extra_messages = note
                       /\ r.llm # "none" => r.llm_arg.extra = note /\ r.llm_arg.history = r.prior \o <<Msg("user", r.user_message)>>

\* the model is called in a turn that follows a turn with fields missing
C2_Witness ==
    \E t \in Threads :
        /\ ChatDone(t) /\ req[t].inference = "returned"
        /\ req[t].supplied_before # {} /\ req[t].supplied_before # FieldSet

\* the turn supplies the last field the session still lacked
SuppliesLastField(t) ==
    /\ ChatTurn(t) /\ req[t].pc \in {"ready_llm", "done"}
    /\ req[t].supplied_before # FieldSet
    /\ req[t].supplied_before \cup UsableFields(req[t].canonical_fields) = FieldSet

\* C3 as stated: once every field has been given a valid value in some turn of the
\* session, the turn that gives the last one invokes the inference service.
C3_AsStated ==
    \A t \in Threads : SuppliesLastField(t) => req[t].inference # "none"

\* C3 amended: that turn finds no field missing (also after a turn that ended with
\* HTTP 500, whose fields are in the house record), and it invokes the inference
\* service unless its message names an unsupported location or the latest text of a
\* number does not coerce.
C3_LastFieldCompletes ==
    \A t \in Threads :
        SuppliesLastField(t) =>
            /\ StillMissing(req[t].reconciled) = <<>>
            /\ (~UnsupportedTurn(t) /\ Coerces(req[t].reconciled)) => req[t].inference # "none"

\* the last field arrives after a turn that failed with HTTP 500: nothing of that
\* turn is in the stored history, its fields come from the house record
C3_Witness ==
    \E t \in Threads :
        /\ SuppliesLastField(t) /\ req[t].inference = "returned"
        /\ req[t].prior = <<>> /\ req[t].supplied_before # {}

\* C4: in every HTTP 200 chat response the detected_fields are the values of the
\* session's house record.
C4_DetectedFieldsAreStored ==
    \A t \in Threads :
        ChatDone(t) /\ req[t].status = 200 =>
            \A f \in FieldSet : Get(req[t].response.detected_fields, f) = Get(StoredHouse(t), f)

\* C5: a message that names a location the directory does not know gets the fixed
\* reply: no LLM call, no inference call, no prediction, and the stored history is
\* the prior history, the user turn and the fixed assistant message.
C5_UnsupportedLocation ==
    \A t \in Threads :
        ChatTurn(t) /\ req[t].pc \in {"persisted", "ready_llm", "done"} /\ UnsupportedTurn(t) =>
            /\ req[t].llm = "none"
            /\ req[t].inference = "none"
            /\ req[t].pc # "ready_llm"
            /\ req[t].pc = "done" =>
                   /\ req[t].status = 200
                   /\ req[t].response.prediction = NoneV
                   /\ req[t].response.reply = UNSUPPORTED_REPLY
                   /\ HistoryIsPriorPlus(t, UNSUPPORTED_REPLY)

\* the session already has a known location and all four fields
C5_Witness ==
    \E t \in Threads :
        /\ ChatDone(t) /\ UnsupportedTurn(t) /\ req[t].prior # <<>>
        /\ StillMissing(req[t].reconciled) = <<>>

\* C6: every answered chat turn is in the stored history of its session: its user
\* message followed by its reply (no turn is lost, also when two requests overlap).
C6_NoTurnLost ==
    \A t \in Threads :
        ChatDone(t) /\ req[t].llm = "returned" =>
            \E i \in 1..(Len(StoredHistory(t)) - 1) :
                /\ StoredHistory(t)[i] = Msg("user", req[t].user_message)
                /\ StoredHistory(t)[i + 1] = Msg("assistant", req[t].llm_text)

\* C7: when a client thread is between calls, the record of its session is the one
\* its last upsert returned, every add_record record is in the file, and no session
\* has two records.
C7_StoreCallsAtomic ==
    /\ \A p \in Procs :
           sp[p].pc = "idle" /\ sp[p].returned # EmptyDict =>
               \/ sp[p].op = "add_record"
               \/ get_record_by_session(houses, SessionOf(p)) = sp[p].returned
    /\ \A p \in Procs :
           sp[p].pc \in {"idle", "release"} /\ sp[p].op = "add_record" =>
               \E i \in 1..Len(houses) : houses[i] = sp[p].returned
    /\ (\A p \in Procs : sp[p].pc = "idle") =>
           /\ \A p \in Procs :
                  Cardinality({i \in 1..Len(houses) :
                                  Get(houses[i], "session_id") = StrV(SessionOf(p))}) <= 1
           /\ Len(houses) <= storeCalls

\* both threads have written, one of them into a record that existed
C7_Witness ==
    /\ \A p \in Procs : sp[p].pc = "idle" /\ sp[p].returned # EmptyDict
    /\ Len(houses) = 2
    /\ storeCalls = 3

\* the message of the request is absent or only whitespace
EmptyMessage(t) == Words(TextOr(req[t].payload, "message")) = <<>>

\* C8: a chat request without a message is answered 400 and touches nothing.
C8_EmptyMessageRejected ==
    \A t \in Threads :
        req[t].kind = "chat" /\ req[t].pc # "idle" /\ EmptyMessage(t) =>
            /\ req[t].pc = "done"
            /\ req[t].status = 400
            /\ req[t].response.error
            /\ req[t].inference = "none"
            /\ req[t].llm = "none"
            /\ conversations = req[t].conv0
            /\ houses = req[t].houses0

C8_Witness ==
    \E t \in Threads :
        /\ req[t].kind = "chat" /\ req[t].status = 400 /\ req[t].minted
        /\ Get(req[t].payload, "message") = StrV(M_blank)
        /\ conversations # EmptyDict

\* C9: when the LLM call raises, the answer is 500 with an error payload and the
\* conversation store is as it was before the request.
C9_LLMFailureKeepsHistory ==
    \A t \in Threads :
        ChatDone(t) /\ req[t].llm = "raised" =>
            /\ req[t].status = 500
            /\ req[t].response.error
            /\ conversations = req[t].conv0
            /\ StoredHistory(t) = req[t].prior

C9_Witness ==
    \E t \in Threads : ChatDone(t) /\ req[t].llm = "raised" /\ req[t].prior # <<>>

\* what C10 says of a turn whose inference call raised, up to the LLM call
C10_UpToLLM(t) ==
    /\ req[t].pc \in {"ready_llm", "done"}
    /\ req[t].extra_messages = <<Note("assistant", "inference_error", <<>>)>>
    /\ req[t].prediction_val = NoneV
    /\ Get(StoredHouse(t), "predicted_price_lakh") = Get(HouseAtStart(t), "predicted_price_lakh")
    /\ req[t].pc = "done" =>
           /\ req[t].llm # "none"
           /\ req[t].llm_arg.extra = req[t].extra_messages

\* what C10 says of the answer
C10_Answer(t) ==
    /\ req[t].status = 200
    /\ req[t].response.prediction = NoneV
    /\ HistoryIsPriorPlus(t, req[t].llm_text)

\* C10 as stated: when the inference call raises the request does not fail: the LLM
\* is called with the error note, the answer is 200 with no prediction, the turn is
\* stored, and no predicted price is written.
C10_AsStated ==
    \A t \in Threads :
        ChatTurn(t) /\ req[t].inference = "raised" =>
            C10_UpToLLM(t) /\ (req[t].pc = "done" => C10_Answer(t))

\* C10 amended: the same, the answer being 200 and the turn stored when the LLM call
\* that follows succeeds.
C10_InferenceFailureTolerated ==
    \A t \in Threads :
        ChatTurn(t) /\ req[t].inference = "raised" =>
            C10_UpToLLM(t) /\ (req[t].pc = "done" /\ req[t].llm = "returned" => C10_Answer(t))

C10_Witness ==
    \E t \in Threads :
        /\ ChatDone(t) /\ req[t].inference = "raised" /\ req[t].llm = "returned"
        /\ Get(HouseAtStart(t), "predicted_price_lakh") # NoneV

\* a request of POST /api/house/predict has been answered
ApiAnswered == api.answer.status # 0

\* the body has no usable value for field f: absent or null, or a location that is
\* an empty or all-whitespace string
ApiLacks(f) ==
    \/ Get(api.payload, f) = NoneV
    \/ f = "location" /\ Get(api.payload, f).k = "str" /\ Words(Get(api.payload, f).s) = <<>>

ApiLacking == SelectSeq(Fields, LAMBDA f : ApiLacks(f))

\* C11: a request that lacks one of the four fields is answered 400 with an error
\* that names exactly the fields it lacks; the inference service is not called and
\* houses.json is not written.
C11_MissingFieldsRejected ==
    ApiAnswered /\ ApiLacking # <<>> =>
        /\ api.answer.status = 400
        /\ api.answer.error = "missing"
        /\ api.answer.missing = ApiLacking
        /\ ~api.answer.called
        /\ houses = api.houses0

\* the record a successful request appended
ApiRecord == houses[Len(houses)]

\* the location of the body names an entry of the directory, up to case and spacing
NamesDirectoryEntry(text, name) ==
    /\ \E i \in 1..Len(get_location_names) : get_location_names[i] = name
    /\ Words(LowerText(text)) = LowerText(name)

\* C12: houses.json gets a record exactly when the answer is 200: then it is the old
\* list with one record appended, of source "api", with the canonical location, the
\* price the inference call returned, and the id the answer gives as record_id; an
\* answer 400 or 500 leaves houses.json as it was.
C12_RecordIffSuccess ==
    ApiAnswered =>
        /\ api.answer.status \in {200, 400, 500}
        /\ api.answer.status = 200 <=> houses # api.houses0
        /\ api.answer.status = 200 =>
               /\ Len(houses) = Len(api.houses0) + 1
               /\ SubSeq(houses, 1, Len(api.houses0)) = api.houses0
               /\ ApiRecord.source = StrV(<<T_api>>)
               /\ NamesDirectoryEntry(api.payload.location.s, ApiRecord.location.s)
               /\ ~api.outcome.raised
               /\ ApiRecord.predicted_price_lakh = FloatV(api.outcome.price)
               /\ api.answer.predicted_price_lakh = FloatV(api.outcome.price)
               /\ api.answer.record_id = ApiRecord.id
               /\ \A i \in 1..Len(api.houses0) : houses[i].id # ApiRecord.id
        /\ api.answer.status \in {400, 500} => houses = api.houses0

\* a second record, for a location typed in another case and spacing
C12_Witness ==
    /\ ApiAnswered /\ api.answer.status = 200
    /\ Len(houses) = 2
    /\ api.payload.location = StrV(<<W_Hebbal, Space, Space, W_Kempapura>>)

\* worker t has answered a GET /api/chat/<session_id>
HistoryDone(t) == req[t].kind = "history" /\ req[t].pc = "done"

\* what conversations.json holds for a session id
StoredFor(session_id) ==
    IF session_id \in DOMAIN conversations THEN conversations[session_id] ELSE <<>>

\* C13: GET /api/chat/<session_id> answers 404 exactly when conversations.json holds
\* no history, or an empty one, for the id, and else 200 with the stored history;
\* conversations.json and houses.json are as they were before the request.
C13_HistoryOr404 ==
    \A t \in Threads :
        HistoryDone(t) =>
            /\ req[t].status \in {200, 404}
            /\ req[t].status = 404 <=> StoredFor(req[t].session_id) = <<>>
            /\ req[t].status = 404 => req[t].response.error
            /\ req[t].status = 200 =>
                   /\ req[t].response.history = StoredFor(req[t].session_id)
                   /\ req[t].response.session_id = req[t].session_id
            /\ conversations = req[t].conv0
            /\ houses = req[t].houses0

\* a stored session with a house record is read back
C13_Witness ==
    \E t \in Threads :
        /\ HistoryDone(t) /\ req[t].status = 200
        /\ Len(req[t].response.history) = 2
        /\ houses # <<>>

\* client thread p has written houses.json in an upsert and still holds the lock
UpsertWritten(p) == sp[p].pc = "release" /\ sp[p].op = "upsert_session_record"

\* the places of the records of a session id in a list of records
PlacesOf(data, session_id) ==
    {i \in 1..Len(data) : Get(data[i], "session_id") = StrV(session_id)}

\* the arguments of an upsert that can be absent
OptionalArgs == {"location", "total_sqft", "bath", "bhk", "predicted_price_lakh"}

\* record new is record old with the supplied arguments a written over it
OnlySuppliedChanged(old, new, a) ==
    /\ DOMAIN new = DOMAIN old
    /\ new.id = old.id
    /\ new.session_id = old.session_id
    /\ \A f \in OptionalArgs : a[f] = NoneV => new[f] = old[f]
    /\ a.location # NoneV => new.location = a.location
    /\ FloatOk(a.total_sqft) => new.total_sqft = ToFloat(a.total_sqft)
    /\ IntOk(a.bath) => new.bath = ToInt(a.bath)
    /\ IntOk(a.bhk) => new.bhk = ToInt(a.bhk)
    /\ a.predicted_price_lakh # NoneV => new.predicted_price_lakh = ToFloat(a.predicted_price_lakh)
    /\ new.source = IF a.source \notin {NoneV, EmptyStr} THEN a.source ELSE old.source

\* C14: houses.json never holds two records of one session id; an upsert for a
\* session that has a record keeps the record's id and session_id, writes the
\* supplied arguments, leaves the record's other fields as they were and leaves
\* every other record as it was.
C14_UpsertFrame ==
    /\ \A p \in Procs : Cardinality(PlacesOf(houses, SessionOf(p))) <= 1
    /\ \A p \in Procs :
           UpsertWritten(p) /\ PlacesOf(sp[p].data, SessionOf(p)) # {} =>
               /\ Len(houses) = Len(sp[p].data)
               /\ \A i \in 1..Len(houses) :
                      IF i \in PlacesOf(sp[p].data, SessionOf(p))
                      THEN OnlySuppliedChanged(sp[p].data[i], houses[i], sp[p].args)
                      ELSE houses[i] = sp[p].data[i]
    /\ \A p \in Procs :
           UpsertWritten(p) /\ PlacesOf(sp[p].data, SessionOf(p)) = {} =>
               /\ Len(houses) = Len(sp[p].data) + 1
               /\ SubSeq(houses, 1, Len(sp[p].data)) = sp[p].data

\* an upsert without a location, on a record that has one, beside another record
C14_Witness ==
    \E p \in Procs :
        /\ UpsertWritten(p)
        /\ sp[p].args.location = NoneV
        /\ \E i \in PlacesOf(sp[p].data, SessionOf(p)) : sp[p].data[i].location # NoneV
        /\ Len(houses) = 2

\* select_best_model has been called directly; the metric of the chosen candidate
SelectCalled == lib # EmptyDict /\ lib.op = "select_best_model"
Chosen == lib.metrics[CHOOSE i \in 1..Len(lib.metrics) : lib.metrics[i].name = lib.result].metric
CvScored == {i \in 1..Len(lib.metrics) : lib.metrics[i].metric.cv_r2 # NoneV}

\* C18: select_best_model returns a candidate of the map; when some candidate has a
\* CV R2 it returns one that has, with the highest CV R2 among those; when none has,
\* the one with the lowest RMSE.
C18_BestModel ==
    SelectCalled =>
        /\ \E i \in 1..Len(lib.metrics) : lib.metrics[i].name = lib.result
        /\ CvScored # {} =>
               /\ Chosen.cv_r2 # NoneV
               /\ \A i \in CvScored : lib.metrics[i].metric.cv_r2.n <= Chosen.cv_r2.n
        /\ CvScored = {} =>
               \A i \in 1..Len(lib.metrics) : Chosen.rmse.n <= lib.metrics[i].metric.rmse.n

\* should_replace_model has been called directly
ReplaceCalled == lib # EmptyDict /\ lib.op = "should_replace_model"

\* the number a saved metrics record holds under a key, if it holds one
SavedNumber(key) ==
    LET v == lib.saved_metrics.metrics[key]
    IN  IF v.k \in {"int", "float"} THEN v.n
        ELSE IF v.k = "str" /\ FloatOk(v) THEN ToFloat(v).n
        ELSE 0
HasSavedNumber(key) ==
    LET v == lib.saved_metrics.metrics[key]
    IN  v.k \in {"int", "float"} \/ (v.k = "str" /\ FloatOk(v))

\* C19: should_replace_model is true without a saved record; else, for a new model
\* with a CV R2, exactly when that is strictly greater than the saved CV R2 or the
\* saved record has none; for a new model without, exactly when its RMSE is strictly
\* lower than the saved RMSE or no saved RMSE is recorded.
C19_ShouldReplace ==
    ReplaceCalled =>
        lib.result =
            IF lib.saved_metrics = NoneV THEN TRUE
            ELSE IF lib.new_metrics.cv_r2 # NoneV
                 THEN ~HasSavedNumber("cv_r2") \/ lib.new_metrics.cv_r2.n > SavedNumber("cv_r2")
            ELSE ~HasSavedNumber("rmse") \/ lib.new_metrics.rmse.n < SavedNumber("rmse")

\* a new model whose metrics equal the saved ones is not judged better
C19_Witness ==
    /\ ReplaceCalled /\ lib.saved_metrics # NoneV
    /\ lib.new_metrics.cv_r2 = FloatV(80) /\ lib.saved_metrics.metrics.cv_r2 = FloatV(80)
    /\ lib.new_metrics.rmse = FloatV(250) /\ lib.saved_metrics.metrics.rmse = FloatV(250)
    /\ ~lib.result

\* get_locations has been called directly
LocationsCalled == lib # EmptyDict /\ lib.op = "get_locations"

\* two names of one location: equal up to letter case and whitespace
SameLocation(a, b) == Words(LowerText(a)) = Words(LowerText(b))

\* the highest count stored for the location a name writes
RECURSIVE MaxCountFor(_, _)
MaxCountFor(name, items) ==
    IF items = <<>> THEN 0
    ELSE LET rest == MaxCountFor(name, Tail(items))
         IN  IF SameLocation(Head(items).name, name) /\ Head(items).count > rest
             THEN Head(items).count ELSE rest

\* C17: get_locations returns exactly one entry per stored location, names that
\* differ only in whitespace or letter case being one location; the entry's count
\* is the highest count stored for the location; the entries are in descending
\* order of count.
C17_OneEntryPerLocation ==
    LocationsCalled =>
        /\ \A i \in 1..Len(lib.stored) :
               Words(lib.stored[i].name) # <<>> =>
                   \E j \in 1..Len(lib.result) :
                       SameLocation(lib.result[j].name, lib.stored[i].name)
        /\ \A i, j \in 1..Len(lib.result) :
               SameLocation(lib.result[i].name, lib.result[j].name) => i = j
        /\ \A j \in 1..Len(lib.result) :
               lib.result[j].count = MaxCountFor(lib.result[j].name, lib.stored)
        /\ \A j \in 1..(Len(lib.result) - 1) : lib.result[j].count >= lib.result[j + 1].count

\* transform_input has been called on a fitted preprocessor
TransformCalled ==
    lib # EmptyDict /\ lib.op = "transform_input" /\ lib.preprocessor.feature_columns # <<>>

\* the value the returned row has under a column
RowValue(column) ==
    lib.result.row[CHOOSE i \in 1..Len(lib.result.row) : lib.result.row[i].column = column].value

FittedCategories ==
    {lib.preprocessor.location_categories[i] :
        i \in 1..Len(lib.preprocessor.location_categories)}

\* C20: on a fitted preprocessor transform_input raises nothing and returns one
\* row whose columns are the fitted feature columns in the fitted order, with
\* total_sqft, bath and BHK equal to the inputs; the dummy of the trimmed location
\* is 1 when it is a fitted category, and every other location dummy is 0.
C20_TransformInput ==
    TransformCalled =>
        /\ ~lib.result.raised
        /\ [i \in 1..Len(lib.result.row) |-> lib.result.row[i].column]
               = lib.preprocessor.feature_columns
        /\ RowValue(<<W_total_sqft>>).n = ToFloat(lib.total_sqft).n
        /\ RowValue(<<W_bath>>) = lib.bath
        /\ RowValue(<<W_BHK>>) = lib.bhk
        /\ \A c \in FittedCategories :
               RowValue(c) = IntV(IF c = Strip(lib.location) THEN 1 ELSE 0)

\* a padded name of a fitted category, with a second category fitted too
C20_Witness ==
    /\ TransformCalled
    /\ lib.location # Strip(lib.location)
    /\ Strip(lib.location) \in FittedCategories
    /\ Len(lib.preprocessor.location_categories) = 2
    /\ RowValue(Strip(lib.location)) = IntV(1)

\* create_app has been called
Booted == boots >= 1
SkipUnset == "SKIP_TRAINING_ON_START" \notin DOMAIN environ
SkipSet == skip_training(environ)

\* C15 as stated: with SKIP_TRAINING_ON_START unset training has run exactly once
\* after any number of create_app calls, the first included; with the flag set to
\* 1/true/yes it has never run.
C15_TrainsInFirstCallOnly ==
    Booted => /\ SkipUnset => boot.runs = 1
              /\ SkipSet => boot.runs = 0

\* the last create_app call reached train_models
TrainingRan == Booted /\ boot.trained
BestFile == BestFilename(boot.best_name)
Written(file) ==
    /\ file \in DOMAIN modelDir
    /\ modelDir[file].run = boot.call
NothingWritten ==
    /\ modelDir = boot.modelDir
    /\ metricsFile = boot.metricsFile
    /\ locationsFile = boot.locationsFile
AllWritten ==
    /\ Written(boot.best_name \o W_suffix) /\ modelDir[boot.best_name \o W_suffix].model = boot.best_name
    /\ Written(W_preprocessor_pkl)
    /\ Len(metricsFile) = Len(boot.metricsFile) + 1
    /\ SubSeq(metricsFile, 1, Len(boot.metricsFile)) = boot.metricsFile
    /\ metricsFile[Len(metricsFile)].model_name = StrV(<<boot.best_name>>)
    /\ metricsFile[Len(metricsFile)].model_filename = BestFile
    /\ metricsFile[Len(metricsFile)].metrics = as_dict(MetricOf(boot.metrics, boot.best_name))
    /\ Get(environ, "HOUSE_MODEL_FILENAME") = BestFile
    /\ {locationsFile[i] : i \in 1..Len(locationsFile)}
           = {item \in {boot.counts[i] : i \in 1..Len(boot.counts)} : item.name # <<W_other>>}
    /\ \A i \in 1..(Len(locationsFile) - 1) : locationsFile[i].count >= locationsFile[i + 1].count

MergeCalled == lib # EmptyDict /\ lib.op = "_merge_fields_from_history"

\* the messages of the list whose extraction yields a field
Yielding(f) ==
    {i \in 1..Len(lib.history) : f \in DOMAIN _extract_fields(lib.history[i].content, TRUE)}
LastYielding(f) == CHOOSE i \in Yielding(f) : \A j \in Yielding(f) : j <= i

\* C21: for each of the four fields _merge_fields_from_history yields the value
\* extracted from the last message of the list, of either role, whose
\* extraction yields the field, and omits a field that no message yields.
C21_LatestWins ==
    MergeCalled =>
        \A f \in FieldSet :
            IF Yielding(f) = {} THEN f \notin DOMAIN lib.result
            ELSE /\ f \in DOMAIN lib.result
                 /\ lib.result[f]
                        = _extract_fields(lib.history[LastYielding(f)].content, TRUE)[f]

\* bhk 3 in an earlier message, bhk 2 in a later one, and a bath taken from an
\* assistant message in between
C21_Witness ==
    /\ MergeCalled
    /\ lib.history = <<[role |-> "user", content |-> M_bath_bhk],
                       [role |-> "assistant", content |-> R_bath],
                       [role |-> "user", content |-> M_bhk2]>>
    /\ lib.result = [bath |-> StrV(<<N_2d5>>), bhk |-> StrV(<<N_2>>)]

\* a read of a store has been called over a file
FileRead == lib # EmptyDict /\ lib.op \in {"get_history", "get_record_by_session", "list_records"}

\* the shape each store writes: a mapping of lists, a list of objects
WellShaped ==
    IF lib.op = "get_history"
    THEN /\ lib.file.doc.t = "object"
         /\ \A k \in DOMAIN lib.file.doc.members : lib.file.doc.members[k].t = "array"
    ELSE /\ lib.file.doc.t = "array"
         /\ \A i \in 1..Len(lib.file.doc.items) : lib.file.doc.items[i].t = "object"

Corrupted == ~lib.file.exists \/ ~lib.file.parses \/ ~WellShaped

\* C22: for a file that is missing, is not JSON, or is JSON of an unexpected
\* shape, get_history, list_records and get_record_by_session raise nothing and
\* return an empty result.
C22_ReadsNeverRaise ==
    (FileRead /\ Corrupted) =>
        /\ ~lib.result.raised
        /\ lib.result.value \in {<<>>, NoneV}

\* a form with its four fields filled has been submitted in the last interaction
FilledFormSubmitted ==
    /\ ui.submitted # EmptyDict
    /\ \A k \in DOMAIN ui.submitted : ~Blank(ui.submitted[k])

\* C23: submitting the form with its four fields filled sends one chat turn that
\* carries the submitted location, total_sqft, bath and bhk, hides the form, and
\* does not end in an unhandled error.
C23_FormSendsTurn ==
    FilledFormSubmitted =>
        /\ ui.error = ""
        /\ ~ui.show_form
        /\ ui.sent # <<>>
        /\ ui.sent[Len(ui.sent)].kind = "form"
        /\ ui.sent[Len(ui.sent)].carries =
               [k \in MessageKeys |-> IF k = "total_sqft" THEN ui.submitted["sqft"]
                                      ELSE ui.submitted[k]]

\* main() is over: it has returned, or an exception has left it
SupervisorDone == sup.pc \in {"returned", "raised"}

\* C24: when main() is over the backend's shutdown has been invoked and the
\* front-end process has exited, or has been sent terminate and, not having
\* exited in time, kill; it is never left running without a signal.
C24_CleanShutdown ==
    SupervisorDone =>
        /\ sup.api_shutdown
        /\ (sup.proc = "running" => sup.terminated)
        /\ (sup.proc = "exited" \/ sup.killed)

\* _extract_fields has been called directly with the allow-list
ExtractCalled == lib # EmptyDict /\ lib.op = "_extract_fields"

\* an explicit location marker matched and its capture is no allowed name
MarkerFailed ==
    /\ LocationCandidate(lib.text) # <<>>
    /\ \A i \in 1..Len(get_location_names) :
           LowerText(get_location_names[i]) # Words(LowerText(LocationCandidate(lib.text)))

\* the allowed names that occur in the normalized text
NamesInText ==
    {get_location_names[i] : i \in 1..Len(get_location_names)} \cap
    {name \in {get_location_names[i] : i \in 1..Len(get_location_names)} :
        Contains(Words(LowerText(lib.text)), LowerText(name))}

\* C25 as stated: when a marker matched and its capture fails canonicalization
\* the result has no location, whatever allowed name occurs elsewhere in the text.
C25_FailedMarkerNoLocation ==
    (ExtractCalled /\ MarkerFailed) => "location" \notin DOMAIN lib.result

\* C25 amended: when a marker matched and its capture fails canonicalization the
\* capture is not accepted, and the fallback still applies: the result's location
\* is the longest allowed name occurring in the normalized text, and there is no
\* location only when no allowed name occurs in it.
C25_FailedMarkerFallsBack ==
    (ExtractCalled /\ MarkerFailed) =>
        IF NamesInText = {} THEN "location" \notin DOMAIN lib.result
        ELSE /\ "location" \in DOMAIN lib.result
             /\ lib.result["location"].s \in NamesInText
             /\ \A name \in NamesInText : NameLen(name) <= NameLen(lib.result["location"].s)

\* "in Mars" fails and the text names Hebbal Kempapura before it
C25_Witness ==
    /\ ExtractCalled /\ MarkerFailed
    /\ "location" \in DOMAIN lib.result
    /\ lib.result["location"] = StrV(<<W_Hebbal, W_Kempapura>>)

\* load_saved_metrics has been called directly
LoadCalled == lib # EmptyDict /\ lib.op = "load_saved_metrics"

\* the entries the file gives: none when it is absent or unreadable
FileEntries == IF lib.file.exists /\ lib.file.parses THEN lib.file.entries ELSE <<>>

\* an entry with a "metrics" object that has an "rmse" field
ValidEntry(entry) ==
    /\ "k" \notin DOMAIN entry
    /\ "metrics" \in DOMAIN entry
    /\ "k" \notin DOMAIN entry.metrics
    /\ "rmse" \in DOMAIN entry.metrics
ValidAt == {i \in 1..Len(FileEntries) : ValidEntry(FileEntries[i])}

\* C26 as stated: load_saved_metrics returns the latest valid entry of the
\* history, an earlier one when the last is not valid, and none only when the
\* file is absent, unreadable or has no valid entry.
C26_LatestValidEntry ==
    LoadCalled =>
        IF ValidAt = {} THEN lib.result = NoneV
        ELSE lib.result = FileEntries[CHOOSE i \in ValidAt : \A j \in ValidAt : j <= i]

\* the entries that are objects: the others are dropped when the file is read
ObjectEntries == SelectSeq(FileEntries, LAMBDA entry : "k" \notin DOMAIN entry)

\* C26 amended: load_saved_metrics returns the last object entry of the history
\* when that entry is valid, and none otherwise, whatever the entries before it;
\* none also when the file is absent, unreadable or has no object entry.
C26_LastEntryIfValid ==
    LoadCalled =>
        IF ObjectEntries # <<>> /\ ValidEntry(ObjectEntries[Len(ObjectEntries)])
        THEN lib.result = ObjectEntries[Len(ObjectEntries)]
        ELSE lib.result = NoneV

\* a valid entry followed by one without metrics: none is returned
C26_Witness ==
    /\ LoadCalled
    /\ lib.file.shape = "history"
    /\ lib.file.entries = <<E_good, E_no_metrics>>
    /\ lib.result = NoneV

\* prepare_data has been called directly
PrepareCalled == lib # EmptyDict /\ lib.op = "prepare_data"

\* C27 as stated: prepare_data, given the data file, completes without error, and
\* its fit_transform_cleaned fits on the base cleaned frame followed by the cleaned
\* history rows the location categories and feature columns that fit_transform
\* fits on that frame.
C27_PrepareDataFits ==
    PrepareCalled =>
        /\ ~lib.result.fit.raised
        /\ lib.result.fit.preprocessor = fit_transform(lib.base_clean \o lib.history_clean)

\* the four fields of the session's record are those it had when the request began
FieldsKept(t) == \A f \in FieldSet : Get(StoredHouse(t), f) = Get(HouseAtStart(t), f)

\* the request ran the model and stored its result with the fields it was computed for
PredictedNow(t) ==
    /\ req[t].inference = "returned"
    /\ Get(StoredHouse(t), "predicted_price_lakh") = req[t].price

\* C28 as stated: after a completed chat request, a stored predicted_price_lakh is
\* the result computed for the record's current four fields: the request either
\* stored a new prediction or left the fields of a record as they were.
C28_PredictionMatchesFields ==
    \A t \in Threads :
        ChatDone(t) /\ Get(StoredHouse(t), "predicted_price_lakh") # NoneV =>
            PredictedNow(t) \/ FieldsKept(t)

\* a chat request has completed and none is being handled
ChatCompleted ==
    /\ \E t \in Threads : ChatDone(t)
    /\ \A t \in Threads : req[t].pc \in {"idle", "done"}

\* the session ids the house records carry
RecordSessions ==
    {houses[i].session_id.s : i \in {j \in 1..Len(houses) : Truthy(Get(houses[j], "session_id"))}}

\* C29 as stated: after every completed chat request, whatever its outcome, every
\* house record that carries a session_id belongs to a session whose stored
\* conversation history is not empty.
C29_RecordsHaveHistory ==
    ChatCompleted => \A session_id \in RecordSessions :
                         get_history(conversations, session_id) # <<>>

\* an even number of {role, content} messages, user and assistant in turn
AlternatingHistory(history) ==
    /\ Len(history) % 2 = 0
    /\ \A i \in 1..Len(history) :
           /\ DOMAIN history[i] = {"role", "content"}
           /\ history[i].role = IF i % 2 = 1 THEN "user" ELSE "assistant"

\* worker t answers a chat request with 200 in this step
Persists(t) ==
    /\ req[t].kind = "chat" /\ req[t].pc # "done"
    /\ req'[t].pc = "done" /\ req'[t].status = 200

\* what the step stores is the history the request read, its user turn and one reply
ExtendsByTwo(t) ==
    get_history(conversations', req[t].session_id)
        = req[t].prior \o <<Msg("user", req[t].user_message),
                            Msg("assistant", req'[t].response.reply)>>

\* C30: under any interleaving of chat requests, from empty stores, every stored
\* history has even length and alternates user, assistant from a user message,
\* and a request that persists stores the history it read extended by exactly its
\* user turn and one assistant reply, none of the hidden messages among them.
C30_AlternatingHistories ==
    /\ [](\A session_id \in DOMAIN conversations :
             AlternatingHistory(conversations[session_id]))
    /\ [][\A t \in Threads : Persists(t) => ExtendsByTwo(t)]_vars

\* two requests of one session, interleaved: both read the empty history, both
\* were answered by the LLM, given hidden messages, and one turn is stored
C30_Witness ==
    /\ \A t \in Threads :
           /\ ChatDone(t) /\ req[t].status = 200 /\ req[t].llm = "returned"
           /\ req[t].prior = <<>> /\ req[t].extra_messages # <<>>
    /\ req["w1"].session_id = req["w2"].session_id
    /\ Len(get_history(conversations, req["w1"].session_id)) = 2

====
